---- MODULE Spec2Model ----
(***************************************************************************)
(* A model of schema_migrator's MigrationExecutor (executor.py): the site  *)
(* migration driver, the per-table row writer with its two caches, the     *)
(* dependency sort of destination tables and the CASE expression           *)
(* evaluator.                                                              *)
(*                                                                         *)
(* Eight specifications share the module:                                    *)
(*   Spec       migrate_site run over two sites through one executor,      *)
(*              with a database server that may fail                       *)
(*   SpecFields migrate_site over further mapping documents                *)
(*   SpecSort   _sort_targets_by_dependency on bounded input lists         *)
(*   SpecSortAny  the same sort over every dependency relation on three    *)
(*              tables, cyclic ones included                               *)
(*   SpecCase   _eval_case_statement on bounded CASE expressions and rows  *)
(*   SpecChain  _resolve_fk_chain on bounded chains, rows, caches and      *)
(*              destination tables                                         *)
(*   SpecGroup  _group_targets on bounded field mappings                   *)
(*   SpecTransform  _evaluate_sql_transform on bounded snippets and rows   *)
(***************************************************************************)
EXTENDS Integers, Sequences, FiniteSets, TLC

\* ------------------------------------------------------------------ bounds
\* longest input list handed to the dependency sort
MaxSortLen == 3
\* most WHEN/THEN pairs of a generated CASE expression
MaxWhen == 2

\* most migrate_site calls made through the executor
MaxRuns == 2
\* most failures the environment (the database server) injects in one behaviour
MaxFaults == 1
\* most fields of a field_mappings object handed to _group_targets
MaxFields == 2

VARIABLES
  \* ---- the executor object (MigrationExecutor.__init__, lines 41-57)
  mappings,                 \* self.mappings: the loaded mapping document
  unique_constraints_cache, \* self.unique_constraints_cache
  id_mappings,              \* self.id_mappings
  \* ---- the connection and the databases behind it
  db,                       \* rows of every destination table, keyed <<database, table>>
  curdb,                    \* the database the connection's last USE selected
  uncommitted,              \* keys of tables holding writes executed but not committed
  \* ---- the frame of migrate_site / migrate_table / _migrate_to_target
  pc,                       \* where the running call stands
  site,                     \* site_info of the running call
  stats,                    \* migrate_site's stats (the report once it returns)
  tblIdx,                   \* position of the for loop over migration_order
  kind,                     \* target_db_type of the running migrate_table
  source_rows,              \* rows migrate_table fetched
  target_groups,            \* result of _group_targets
  sorted_tables,            \* result of _sort_targets_by_dependency
  tgtIdx,                   \* position of the loop over sorted_tables
  tstats,                   \* migrate_table's stats
  rowIdx,                   \* position of the loop over source_rows
  migrated_count,           \* _migrate_to_target's counter
  \* ---- bookkeeping of the environment and of what has happened (not program state)
  run,                      \* migrate_site calls started so far
  faults,                   \* failures injected so far
  raised,                   \* the last migrate_site call ended by raising
  log,                      \* what the running call did (see LogInit)
  \* ---- the specifications of single methods
  sortIn, sortOut, sortDone,      \* SpecSort: input list, result, done flag
  sortDeps,                       \* the dependency table the sort runs with
  caseExpr, caseRow, caseOut, caseDone,  \* SpecCase: expression, row, result
  chainIn, chainRow, chainOut, chainDone,  \* SpecChain: lookup_chain, source_row, result
  groupIn, groupKind, groupOut, groupDone,  \* SpecGroup: field_mappings, target_db_type, result
  sqlIn, sqlRow, sqlOut, sqlDone  \* SpecTransform: sql_transform, row, result

execVars == <<mappings, unique_constraints_cache, id_mappings>>
connVars == <<db, curdb, uncommitted>>
frameVars == <<pc, site, stats, tblIdx, kind, source_rows, target_groups, sorted_tables,
               tgtIdx, tstats, rowIdx, migrated_count>>
bookVars == <<run, faults, raised, log>>
mainVars == <<execVars, connVars, frameVars, bookVars>>

sortVars == <<sortIn, sortOut, sortDone, sortDeps>>
caseVars == <<caseExpr, caseRow, caseOut, caseDone>>
chainVars == <<chainIn, chainRow, chainOut, chainDone>>
groupVars == <<groupIn, groupKind, groupOut, groupDone>>
sqlVars == <<sqlIn, sqlRow, sqlOut, sqlDone>>
\* what migrate_site never touches
elseVars == <<sortVars, caseVars, chainVars, groupVars, sqlVars>>

vars == <<mainVars, elseVars>>

\* ---------------------------------------------------------------- helpers
Range(s) == {s[i] : i \in 1..Len(s)}

\* position of x in the sequence s, 0 when absent
IndexOf(s, x) == IF x \in Range(s) THEN CHOOSE i \in 1..Len(s) : s[i] = x ELSE 0

\* the elements of s that satisfy Keep, in order
RECURSIVE SelectIn(_, _)
SelectIn(s, keep) ==
  IF s = <<>> THEN <<>>
  ELSE IF Head(s) \in keep THEN <<Head(s)>> \o SelectIn(Tail(s), keep)
       ELSE SelectIn(Tail(s), keep)

\* all lists of distinct elements of S of length at most n
RECURSIVE DistinctSeqs(_, _)
DistinctSeqs(S, n) ==
  IF n = 0 THEN {<<>>}
  ELSE LET shorter == DistinctSeqs(S, n - 1)
       IN shorter \cup UNION {{Append(q, x) : x \in S \ Range(q)} :
                               q \in {r \in shorter : Len(r) = n - 1}}

\* ------------------------------------------------ dependency sort (pure)
\* executor.py 389-401: {dependent_table: [tables_it_depends_on]}
dependencies ==
  [t \in {"processing_jobs", "series", "studies", "job_reports", "job_report_data",
          "sessions", "devlog", "audit_log", "oauth_state", "rsi_config",
          "user_licenses"} |->
     CASE t = "processing_jobs" -> <<"series", "users">>
       [] t = "series"          -> <<"studies">>
       [] t = "studies"         -> <<"patients">>
       [] t = "job_reports"     -> <<"processing_jobs">>
       [] t = "job_report_data" -> <<"job_reports">>
       [] t = "sessions"        -> <<"users">>
       [] t = "devlog"          -> <<"users">>
       [] t = "audit_log"       -> <<"users">>
       [] t = "oauth_state"     -> <<"users">>
       [] t = "rsi_config"      -> <<"services">>
       [] t = "user_licenses"   -> <<"services">>]

\* dependencies.get(table, [])
DepsOf(deps, t) == IF t \in DOMAIN deps THEN deps[t] ELSE <<>>

\* a variant that keeps the parents outside the migration
DepGraphUnrestricted(deps, tables) ==
  [t \in Range(tables) |-> DepsOf(deps, t)]

\* executor.py 404-407: the graph restricted to the tables of this migration
DepGraph(deps, tables) ==
  [t \in Range(tables) |-> SelectIn(DepsOf(deps, t), Range(tables))]

RECURSIVE visit(_, _, _)
RECURSIVE visitEach(_, _, _)
\* a variant of visit that appends the table before its dependencies
visitPre(st, graph, t) ==
  IF t \in st.temp_mark THEN st
  ELSE IF t \in st.visited THEN st
  ELSE LET st1 == [sorted_tables |-> Append(st.sorted_tables, t),
                   visited |-> st.visited \cup {t},
                   temp_mark |-> st.temp_mark \cup {t}]
           st2 == visitEach(st1, graph, IF t \in DOMAIN graph THEN graph[t] ELSE <<>>)
       IN [st2 EXCEPT !.temp_mark = @ \ {t}]

\* executor.py 414-426: visit(table); st holds sorted_tables, visited, temp_mark
visit(st, graph, t) ==
  IF t \in st.temp_mark THEN st
  ELSE IF t \in st.visited THEN st
  ELSE LET st1 == [st EXCEPT !.temp_mark = @ \cup {t}]
           st2 == visitEach(st1, graph, IF t \in DOMAIN graph THEN graph[t] ELSE <<>>)
       IN [sorted_tables |-> Append(st2.sorted_tables, t),
           visited |-> st2.visited \cup {t},
           temp_mark |-> st2.temp_mark \ {t}]

visitEach(st, graph, deps) ==
  IF deps = <<>> THEN st
  ELSE visitEach(visit(st, graph, Head(deps)), graph, Tail(deps))

\* executor.py 428-432: the outer loop, visiting every table not yet visited
RECURSIVE visitRoots(_, _, _)
visitRoots(st, graph, tables) ==
  IF tables = <<>> THEN st
  ELSE visitRoots(IF Head(tables) \notin st.visited THEN visit(st, graph, Head(tables)) ELSE st,
                  graph, Tail(tables))

\* executor.py 378-432 with the dependency table as a parameter
SortBy(deps, tables) ==
  visitRoots([sorted_tables |-> <<>>, visited |-> {}, temp_mark |-> {}],
             DepGraph(deps, tables), tables).sorted_tables

\* a variant that leaves the tables in the order of the mapping document
keep_document_order(tables) == tables

sort_targets_by_dependency(tables) == SortBy(dependencies, tables)

\* --------------------------------------------- expression evaluator (pure)
\* An SQL snippet is the list of its whitespace-separated tokens. A value is a
\* record [t, v]: t is its Python type ("null", "str", "int"), v its text.
None == [t |-> "null", v |-> "None"]
StrV(s) == [t |-> "str", v |-> s]
IntV(s) == [t |-> "int", v |-> s]

\* Python's str(value): 'None' for None, the digits of an int
PyStr(val) == val.v

\* the text of a token list, as ' '.join(tokens)
RECURSIVE Join(_)
Join(toks) ==
  IF toks = <<>> THEN ""
  ELSE IF Len(toks) = 1 THEN toks[1]
  ELSE toks[1] \o " " \o Join(Tail(toks))

\* the quoted literals of the model and value[1:-1] of each
Unquote == [q \in {"'x'", "'y'", "'A'", "'B'", "'C'"} |->
              CASE q = "'x'" -> "x" [] q = "'y'" -> "y" [] q = "'A'" -> "A"
                [] q = "'B'" -> "B" [] q = "'C'" -> "C"]

\* value.split('.')[-1] of each table-qualified column token
BareColumn == [q \in {"ss.c", "t.c"} |-> "c"]

\* row.get(col): None for a missing column
RowGet(row, col) == IF col \in DOMAIN row THEN row[col] ELSE None

\* a variant of _eval_value that knows neither NULL nor quoted literals
eval_value_raw(toks, row) ==
  LET text == Join(toks)
  IN IF text \in DOMAIN row THEN row[text] ELSE StrV(text)

\* executor.py 722-742: _eval_value on the text of toks
eval_value(toks, row) ==
  LET text == Join(toks)
      name == IF text \in DOMAIN BareColumn THEN BareColumn[text] ELSE text
  IN IF text = "NULL" THEN None
     ELSE IF text \in DOMAIN Unquote THEN StrV(Unquote[text])
     ELSE IF name \in DOMAIN row THEN row[name] ELSE StrV(name)

\* first position p with 1 < p < Len(toks) holding the token op, 0 when none:
\* where ' op ' occurs in the stripped text
InteriorAt(toks, op) ==
  LET ps == {p \in 2..(Len(toks) - 1) : toks[p] = op}
  IN IF ps = {} THEN 0 ELSE CHOOSE p \in ps : \A q \in ps : p <= q

\* first position p where tokens p, p+1 are IS NULL, 0 when none
IsNullAt(toks) ==
  LET ps == {p \in 1..(Len(toks) - 1) : toks[p] = "IS" /\ toks[p + 1] = "NULL"}
  IN IF ps = {} THEN 0 ELSE CHOOSE p \in ps : \A q \in ps : p <= q

\* condition.replace('IS NULL', ''): the tokens left once every IS NULL pair is dropped
RECURSIVE DropIsNull(_)
DropIsNull(toks) ==
  IF Len(toks) < 2 THEN toks
  ELSE IF toks[1] = "IS" /\ toks[2] = "NULL" THEN DropIsNull(Tail(Tail(toks)))
  ELSE <<toks[1]>> \o DropIsNull(Tail(toks))

\* executor.py 694-720: _eval_condition
eval_condition(toks, row) ==
  LET eq == InteriorAt(toks, "=")
      ne == IF InteriorAt(toks, "!=") # 0 THEN InteriorAt(toks, "!=")
            ELSE InteriorAt(toks, "<>")
      rest == DropIsNull(toks)
      col == IF Len(rest) = 1
             THEN (IF rest[1] \in DOMAIN BareColumn THEN BareColumn[rest[1]] ELSE rest[1])
             ELSE Join(rest)
  IN IF toks = <<>> THEN TRUE
     ELSE IF eq # 0 THEN
       PyStr(eval_value(SubSeq(toks, 1, eq - 1), row))
         = PyStr(eval_value(SubSeq(toks, eq + 1, Len(toks)), row))
     ELSE IF ne # 0 THEN
       PyStr(eval_value(SubSeq(toks, 1, ne - 1), row))
         # PyStr(eval_value(SubSeq(toks, ne + 1, Len(toks)), row))
     ELSE IF IsNullAt(toks) # 0 THEN RowGet(row, col) = None
     ELSE FALSE

\* smallest position >= from of a token in S, 0 when none
FirstAt(toks, from, S) ==
  LET ps == {p \in from..Len(toks) : toks[p] \in S}
  IN IF ps = {} THEN 0 ELSE CHOOSE p \in ps : \A q \in ps : p <= q

\* One match of r'WHEN\s+(.+?)\s+THEN\s+(.+?)(?:\s+WHEN|\s+ELSE|\s+END)' at or
\* after token position from: the lazy groups stop at the first THEN and the first
\* WHEN/ELSE/END that leave each group non-empty; the match ends after that closing
\* keyword, which it consumes.
WhenMatch(toks, from) ==
  LET i == FirstAt(toks, from, {"WHEN"})
      j == IF i = 0 THEN 0 ELSE FirstAt(toks, i + 2, {"THEN"})
      k == IF j = 0 THEN 0 ELSE FirstAt(toks, j + 2, {"WHEN", "ELSE", "END"})
  IN IF k = 0 THEN [found |-> FALSE, cond |-> <<>>, val |-> <<>>, next |-> 0]
     ELSE [found |-> TRUE, cond |-> SubSeq(toks, i + 1, j - 1),
           val |-> SubSeq(toks, j + 1, k - 1), next |-> k + 1]

\* re.findall of that pattern: the non-overlapping matches, left to right
RECURSIVE FindAllWhen(_, _)
FindAllWhen(toks, from) ==
  LET m == WhenMatch(toks, from)
  IN IF ~m.found THEN <<>>
     ELSE <<[cond |-> m.cond, val |-> m.val]>> \o FindAllWhen(toks, m.next)

\* re.search(r'ELSE\s+(.+?)\s+END'): group 1, or <<>> when there is no match
ElseMatch(toks) ==
  LET i == FirstAt(toks, 1, {"ELSE"})
      k == IF i = 0 THEN 0 ELSE FirstAt(toks, i + 2, {"END"})
  IN IF k = 0 THEN <<>> ELSE SubSeq(toks, i + 1, k - 1)

\* the first (condition, value) pair of pairs whose condition is true of row, 0 when none
FirstTrue(pairs, row) ==
  LET ps == {p \in 1..Len(pairs) : eval_condition(pairs[p].cond, row)}
  IN IF ps = {} THEN 0 ELSE CHOOSE p \in ps : \A q \in ps : p <= q

\* executor.py 677-692: _eval_case_statement
eval_case_statement(toks, row) ==
  LET matches == FindAllWhen(toks, 1)
      hit == FirstTrue(matches, row)
      els == ElseMatch(toks)
  IN IF hit # 0 THEN eval_value(matches[hit].val, row)
     ELSE IF els # <<>> THEN eval_value(els, row)
     ELSE None

\* the match of r'SELECT\s+(\w+)' in the token after SELECT, for the tokens of the model
LeadingWord == [q \in {"c", "t.c"} |-> IF q = "c" THEN "c" ELSE "t"]

\* executor.py 647-675: _evaluate_sql_transform on the stripped text of toks
evaluate_sql_transform(toks, row) ==
  IF toks = <<>> THEN None
  ELSE IF toks[1] = "CASE" THEN eval_case_statement(toks, row)
  ELSE IF toks[1] = "SELECT" /\ Len(toks) >= 2 /\ toks[2] \in DOMAIN LeadingWord
       THEN RowGet(row, LeadingWord[toks[2]])
  ELSE RowGet(row, Join(toks))

\* ---- the CASE expressions and rows SpecCase draws from
\* An expression is [pairs |-> list of [cond, val], els |-> token list or <<>>].
RECURSIVE RenderPairs(_)
RenderPairs(pairs) ==
  IF pairs = <<>> THEN <<>>
  ELSE <<"WHEN">> \o Head(pairs).cond \o <<"THEN">> \o Head(pairs).val
         \o RenderPairs(Tail(pairs))

\* the SQL text of an expression, token by token
Render(e) ==
  <<"CASE">> \o RenderPairs(e.pairs)
    \o (IF e.els = <<>> THEN <<>> ELSE <<"ELSE">> \o e.els) \o <<"END">>

CaseConds == {<<"c", "=", "'x'">>, <<"c", "!=", "'x'">>, <<"c", "IS", "NULL">>}
CaseVals == {<<"'A'">>, <<"'B'">>, <<"NULL">>, <<"c">>}
CasePairs == [cond : CaseConds, val : CaseVals]

RECURSIVE SeqsUpTo(_, _)
SeqsUpTo(S, n) ==
  IF n = 0 THEN {<<>>}
  ELSE LET shorter == SeqsUpTo(S, n - 1)
       IN shorter \cup {Append(q, x) : q \in {r \in shorter : Len(r) = n - 1}, x \in S}

CaseExprs == [pairs : SeqsUpTo(CasePairs, MaxWhen) \ {<<>>}, els : CaseVals \cup {<<>>}]

\* rows with column c holding a string, an int, None; and a row without c
CaseRows == {[col \in {"c"} |-> v] : v \in {StrV("x"), StrV("y"), IntV("5"), None}}
              \cup {[col \in {"d"} |-> StrV("x")]}

\* ------------------------------------------------------------ Spec: the data
\* SQL NULL / Python None of a text value; an absent id is 0
NullV == "NULL"
\* Python truthiness of a text value (`if not current_value`)
Truthy(v) == v # NullV /\ v # ""

\* __init__ arguments source_db and central_db
SourceDb == "legacy"
CentralDb == "central_database"

\* The sites migrate_site is called for: site_info with the call's tenant_db and
\* site_uuid. The last one has no username.
SiteAlice == [username |-> "alice", siteName |-> "Alice Co", id |-> "7", tenant_db |-> "tenant_alice",
              site_uuid |-> "uuid-a"]
SiteBob == [username |-> "bob", siteName |-> "Bob Ltd", id |-> "8", tenant_db |-> "tenant_bob",
            site_uuid |-> "uuid-b"]
SiteNameless == [username |-> NullV, siteName |-> "Nobody", id |-> "9", tenant_db |-> "tenant_none",
                 site_uuid |-> "uuid-n"]
NoSite == [username |-> NullV, siteName |-> NullV, id |-> NullV, tenant_db |-> NullV, site_uuid |-> NullV]
SiteInfos == {SiteAlice, SiteBob, SiteNameless}

\* The legacy database: its tables, their columns (SHOW COLUMNS order) and rows.
\* Bob's series row refers (RefUID) to a study only Alice has. OwnerId of visits
\* is a numeric legacy user id. The patient has no AltID.
LegacyTables == {"series", "studies", "notes", "patients", "accounts", "visits"}

SourceColumns ==
  [t \in LegacyTables |->
     CASE t = "series"   -> <<"id", "username", "SeriesUID", "StudyUID", "RefUID">>
       [] t = "studies"  -> <<"id", "username", "StudyUID">>
       [] t = "notes"    -> <<"id", "text">>
       [] t = "patients" -> <<"id", "username", "PatientID", "AltID", "created">>
       [] t = "accounts" -> <<"id", "account_id", "account_name">>
       [] t = "visits"   -> <<"id", "username", "OwnerId">>]

LegacyRows ==
  [t \in LegacyTables |->
     CASE t = "series" ->
            << [id |-> "1", username |-> "alice", SeriesUID |-> "R1", StudyUID |-> "S2", RefUID |-> NullV],
               [id |-> "2", username |-> "alice", SeriesUID |-> "R2", StudyUID |-> "S2", RefUID |-> "S1"],
               [id |-> "3", username |-> "bob", SeriesUID |-> "R3", StudyUID |-> "S3", RefUID |-> "S1"] >>
       [] t = "studies" ->
            << [id |-> "1", username |-> "alice", StudyUID |-> "S1"],
               [id |-> "2", username |-> "alice", StudyUID |-> "S2"] >>
       [] t = "notes" -> << [id |-> "1", text |-> "n"] >>
       [] t = "patients" -> << [id |-> "1", username |-> "alice", PatientID |-> "P1",
                                AltID |-> NullV, created |-> "2020"] >>
       [] t = "accounts" -> << [id |-> "1", account_id |-> "7", account_name |-> "Alice Co"] >>
       [] t = "visits" -> << [id |-> "1", username |-> "alice", OwnerId |-> 5] >>]

\* The destination databases: which tables exist, their columns, and their unique
\* indexes other than PRIMARY (what INFORMATION_SCHEMA.STATISTICS holds).
TenantDbs == {"tenant_alice", "tenant_bob"}
DestKeys == (TenantDbs \X {"studies", "series", "users", "site", "visits", "patients"})
              \cup ({CentralDb} \X {"sites_registry", "series"})

TableColumns(key) ==
  CASE key[2] = "studies" -> {"id", "study_instance_uid"}
    [] key[2] = "series" /\ key[1] # CentralDb -> {"id", "series_instance_uid", "study_id"}
    [] key[2] = "series" /\ key[1] = CentralDb -> {"id", "series_instance_uid"}
    [] key[2] = "sites_registry" -> {"id", "site_uuid", "database_name", "site_name"}
    [] key[2] = "users" -> {"id", "username"}
    [] key[2] = "site" -> {"id", "site_name"}
    [] key[2] = "visits" -> {"id", "user_id"}
    [] key[2] = "patients" -> {"id", "patient_id", "mrn", "created_at"}

UniqueIndexes(key) ==
  CASE key[2] = "studies" -> << <<"study_instance_uid">> >>
    [] key[2] = "series" /\ key[1] # CentralDb -> << <<"series_instance_uid">> >>
    [] key[2] = "series" /\ key[1] = CentralDb -> << >>
    [] key[2] = "sites_registry" -> << <<"site_uuid">> >>
    [] key[2] = "users" -> << <<"username">> >>
    [] key[2] = "site" -> << >>
    [] key[2] = "visits" -> << >>
    [] key[2] = "patients" -> << <<"patient_id">>, <<"mrn">> >>

\* columns holding ids (an int, 0 for NULL); every other column holds text
IntColumns == {"id", "study_id", "user_id"}
NullOf(c) == IF c \in IntColumns THEN 0 ELSE NullV
IsNullIn(c, v) == IF c \in IntColumns THEN v = 0 ELSE v = NullV

\* ---- the mapping document (field_mappings.json)
\* a lookup_chain step that is a JSON object; keys it lacks hold NullV
ChainStep(old_table, old_column, new_table, new_column) ==
  [dict |-> TRUE, old_table |-> old_table, old_column |-> old_column,
   lookup_in |-> NullV, lookup_column |-> NullV, return_column |-> NullV,
   new_table |-> new_table, new_column |-> new_column]
\* a step that first looks its value up in a table of the legacy database
LookupStep(old_column, lookup_in, lookup_column, return_column, new_table, new_column) ==
  [ChainStep(NullV, old_column, new_table, new_column) EXCEPT
     !.lookup_in = lookup_in, !.lookup_column = lookup_column,
     !.return_column = return_column]
\* a lookup_chain element that is not a JSON object (a bare "table.column" string)
NotAnObject ==
  [dict |-> FALSE, old_table |-> NullV, old_column |-> NullV,
   lookup_in |-> NullV, lookup_column |-> NullV, return_column |-> NullV,
   new_table |-> NullV, new_column |-> NullV]

Target(dbk, table, column, chain) ==
  [db |-> dbk, table |-> table, column |-> column, lookup_chain |-> chain]
NewField(old_field, targets) ==
  [old_field |-> old_field, format |-> "targets", targets |-> targets, target |-> <<>>]
\* the legacy form {"target": string}; the string is held as the pieces between
\* its dots, <<>> for an empty string ("a.b" is <<"a", "b">>, "a" is <<"a">>)
LegacyField(old_field, pieces) ==
  [old_field |-> old_field, format |-> "target", targets |-> <<>>, target |-> pieces]
\* the legacy form {"target": "table.column"}
OldField(old_field, table, column) == LegacyField(old_field, <<table, column>>)

\* the text of pieces joined by dots, for the texts the model uses
DottedNames ==
  [p \in {<<"site_name", "old">>} |-> "site_name.old"]
JoinDots(pieces) ==
  IF Len(pieces) = 1 THEN pieces[1] ELSE DottedNames[pieces]

\* The document the executor loads: the source tables in file order. With
\* wellFormed the chain of series.study_id is one step that reads RefUID and
\* resolves it in studies; otherwise its final hop was written as a string.
MappingDoc(wellFormed) ==
  << [table |-> "_meta", fields |-> <<>>],
     [table |-> "series", fields |->
        << NewField("SeriesUID",
             << Target("tenant", "series", "series_instance_uid", <<>>),
                Target("central", "series", "series_instance_uid", <<>>) >>),
           NewField("RefUID",
             << Target("tenant", "series", "study_id",
                  IF wellFormed
                  THEN << ChainStep("series", "RefUID", "studies", "study_instance_uid") >>
                  ELSE << ChainStep("series", "RefUID", NullV, NullV), NotAnObject >>) >>),
           NewField("StudyUID",
             << Target(NullV, "studies", "study_instance_uid", <<>>) >>) >>],
     [table |-> "studies", fields |->
        << OldField("StudyUID", "studies", "study_instance_uid") >>],
     [table |-> "notes", fields |->
        << NewField("text", << Target("tenant", "notes", "text", <<>>) >>) >>] >>

\* A document whose chain for series.study_id goes through the legacy series
\* table: RefUID names another series (by SeriesUID), whose StudyUID is resolved
\* in the new studies table.
HopDoc ==
  << [table |-> "series", fields |->
        << NewField("SeriesUID",
             << Target("tenant", "series", "series_instance_uid", <<>>) >>),
           NewField("RefUID",
             << Target("tenant", "series", "study_id",
                  << LookupStep("RefUID", "series", "SeriesUID", "StudyUID",
                                "studies", "study_instance_uid") >>) >>) >>] >>

\* A document that copies visits.OwnerId to the tenant column visits.user_id and
\* sends the row id to a database kind the executor does not know.
VisitsDoc ==
  << [table |-> "visits", fields |->
        << NewField("OwnerId", << Target("tenant", "visits", "user_id", <<>>) >>),
           NewField("id", << Target("archive", "visits", "legacy_id", <<>>) >>) >>] >>

\* A document that copies accounts.account_name to the tenant site table and to
\* the central sites_registry.
AccountsDoc ==
  << [table |-> "accounts", fields |->
        << NewField("account_name",
             << Target("tenant", "site", "site_name", <<>>),
                Target("central", "sites_registry", "site_name", <<>>) >>) >>] >>

\* A document that copies only the creation date of a patient.
StampDoc ==
  << [table |-> "patients", fields |->
        << NewField("created", << Target("tenant", "patients", "created_at", <<>>) >>) >>] >>

\* A document that copies the two identifiers of a patient to the two uniquely
\* indexed columns of the tenant patients table.
PatientsDoc ==
  << [table |-> "patients", fields |->
        << NewField("AltID", << Target("tenant", "patients", "patient_id", <<>>) >>),
           NewField("PatientID", << Target("tenant", "patients", "mrn", <<>>) >>) >>] >>

\* key.startswith('_'), for the keys of the model
StartsWithUnderscore(name) == name \in {"_meta", "_note"}

MappedTables(doc) == {doc[i].table : i \in 1..Len(doc)}
FieldsOf(doc, t) == doc[CHOOSE i \in 1..Len(doc) : doc[i].table = t].fields

\* ------------------------------------------------- Spec: the pure operators
\* executor.py 185-212: the fixed order of source tables
BaseOrder ==
  << "sysadmin_systemsettings", "patients", "studies", "series", "processing_jobs",
     "job_reports", "job_report_data", "dicom_tags", "services", "container_description",
     "user_licenses", "rsi_config", "session", "oauth_state", "output_routing",
     "devlog", "audit" >>

\* executor.py 214-217: the mapped tables the fixed order lacks, in file order
RECURSIVE ExtraTables(_, _)
ExtraTables(doc, i) ==
  IF i > Len(doc) THEN <<>>
  ELSE IF doc[i].table \notin Range(BaseOrder) /\ ~StartsWithUnderscore(doc[i].table)
       THEN <<doc[i].table>> \o ExtraTables(doc, i + 1)
       ELSE ExtraTables(doc, i + 1)

\* executor.py 180-219: _get_migration_order
get_migration_order(doc) == BaseOrder \o ExtraTables(doc, 1)

\* row.get(col) on a source row
RowGetS(row, col) == IF col \in DOMAIN row THEN row[col] ELSE NullV

\* executor.py 221-245: _get_site_filters once SHOW COLUMNS has answered; the
\* result is [col, val], col = NullV standing for None
NoFilter == [col |-> NullV, val |-> NullV]
get_site_filters(old_table, site_info) ==
  IF old_table \notin DOMAIN SourceColumns THEN NoFilter
  ELSE IF "username" \in Range(SourceColumns[old_table])
       THEN [col |-> "username", val |-> site_info.username]
  ELSE IF "account_id" \in Range(SourceColumns[old_table])
       THEN [col |-> "account_id", val |-> site_info.id]
  ELSE NoFilter

\* executor.py 302-318: _fetch_source_data, SELECT * ... WHERE col = val
RECURSIVE SelectRows(_, _, _)
SelectRows(rows, col, val) ==
  IF rows = <<>> THEN <<>>
  ELSE IF RowGetS(Head(rows), col) = val /\ val # NullV
       THEN <<Head(rows)>> \o SelectRows(Tail(rows), col, val)
       ELSE SelectRows(Tail(rows), col, val)

fetch_source_data(old_table, filters) == SelectRows(LegacyRows[old_table], filters.col, filters.val)

\* executor.py 329-374: the (old_field, target) pairs of one mapped field that go
\* to the requested database kind, as field_info records
RECURSIVE TargetsOfKind(_, _, _)
TargetsOfKind(old_field, targets, target_db_type) ==
  IF targets = <<>> THEN <<>>
  ELSE LET tg == Head(targets)
           dbk == IF tg.db = NullV THEN "tenant" ELSE tg.db
           rest == TargetsOfKind(old_field, Tail(targets), target_db_type)
       IN IF dbk # target_db_type THEN rest
          ELSE << [table |-> tg.table, old_field |-> old_field, new_field |-> tg.column,
                   lookup_chain |-> tg.lookup_chain] >> \o rest

\* a variant that takes the legacy form for every database kind
FieldInfosAnyKind(f, target_db_type) ==
  IF StartsWithUnderscore(f.old_field) THEN <<>>
  ELSE IF f.format = "targets" THEN TargetsOfKind(f.old_field, f.targets, target_db_type)
  ELSE IF f.format # "target" THEN <<>>
  ELSE IF Len(f.target) < 2 THEN <<>>
  ELSE << [table |-> Head(f.target), old_field |-> f.old_field,
           new_field |-> JoinDots(Tail(f.target)), lookup_chain |-> <<>>] >>

FieldInfos(f, target_db_type) ==
  IF StartsWithUnderscore(f.old_field) THEN <<>>
  ELSE IF f.format = "targets" THEN TargetsOfKind(f.old_field, f.targets, target_db_type)
  ELSE IF f.format # "target" THEN <<>>
  ELSE IF Len(f.target) < 2 THEN <<>>
  ELSE IF target_db_type # "tenant" THEN <<>>
  ELSE << [table |-> Head(f.target), old_field |-> f.old_field,
           new_field |-> JoinDots(Tail(f.target)), lookup_chain |-> <<>>] >>

RECURSIVE AllFieldInfos(_, _)
AllFieldInfos(fields, target_db_type) ==
  IF fields = <<>> THEN <<>>
  ELSE FieldInfos(Head(fields), target_db_type) \o AllFieldInfos(Tail(fields), target_db_type)

\* the distinct members of a list, in order of first appearance
RECURSIVE Distinct(_, _)
Distinct(s, seen) ==
  IF s = <<>> THEN <<>>
  ELSE IF Head(s) \in seen THEN Distinct(Tail(s), seen)
  ELSE <<Head(s)>> \o Distinct(Tail(s), seen \cup {Head(s)})

RECURSIVE ForTable(_, _)
ForTable(infos, t) ==
  IF infos = <<>> THEN <<>>
  ELSE IF Head(infos).table = t THEN <<Head(infos)>> \o ForTable(Tail(infos), t)
  ELSE ForTable(Tail(infos), t)

\* executor.py 320-376: _group_targets; tables is list(target_groups.keys())
group_targets(field_mappings, target_db_type) ==
  LET infos == AllFieldInfos(field_mappings, target_db_type)
      tables == Distinct([i \in 1..Len(infos) |-> infos[i].table], {})
  IN [tables |-> tables, fields |-> [t \in Range(tables) |-> ForTable(infos, t)]]

NoGroups == [tables |-> <<>>, fields |-> <<>>]

\* ---- the destination database, as the statements of the executor see it
\* smallest member of a non-empty set of ids
MinId(ids) == CHOOSE i \in ids : \A j \in ids : i <= j

\* the value an INSERT gives column c: the supplied one, else the column default NULL
Supplied(data, c) == IF c \in DOMAIN data THEN data[c] ELSE NullOf(c)

\* the rows a new row with this data collides with on some unique index (a NULL
\* in an indexed column never collides)
Duplicates(rows, key, data) ==
  {r \in rows :
     \E i \in 1..Len(UniqueIndexes(key)) :
        \A c \in Range(UniqueIndexes(key)[i]) :
           ~IsNullIn(c, Supplied(data, c)) /\ r[c] = Supplied(data, c)}

\* AUTO_INCREMENT: rows are never deleted
NextRowId(rows) == Cardinality(rows) + 1

\* What `INSERT INTO table (columns) VALUES (...) [ON DUPLICATE KEY UPDATE ...]`
\* does to the rows of the table: [outcome, rows, id], outcome one of "inserted",
\* "updated" (a duplicate row took the update list), "error" (duplicate key without
\* an update list, or a column the table lacks); id is the row written.
ExecInsert(rows, key, data, update_cols) ==
  LET dups == Duplicates(rows, key, data)
      old == CHOOSE r \in dups : r.id = MinId({d.id : d \in dups})
      new == [c \in TableColumns(key) |->
                IF c = "id" THEN NextRowId(rows) ELSE Supplied(data, c)]
      upd == [c \in TableColumns(key) |-> IF c \in update_cols THEN data[c] ELSE old[c]]
  IN IF ~(DOMAIN data \subseteq TableColumns(key))
     THEN [outcome |-> "error", rows |-> rows, id |-> 0]
     ELSE IF dups = {}
     THEN [outcome |-> "inserted", rows |-> rows \cup {new}, id |-> new.id]
     ELSE IF update_cols = {}
     THEN [outcome |-> "error", rows |-> rows, id |-> 0]
     ELSE [outcome |-> "updated", rows |-> (rows \ {old}) \cup {upd}, id |-> old.id]

\* `SELECT id FROM table WHERE c1 = v1 AND ...` then fetchone: 0 for no row
SelectId(rows, cols, data) ==
  LET hit == {r \in rows : \A c \in cols : ~IsNullIn(c, data[c]) /\ r[c] = data[c]}
  IN IF hit = {} THEN 0 ELSE MinId({r.id : r \in hit})

\* executor.py 900-920: _lookup_in_new_schema; a missing table or column raises
\* inside its try and gives None
lookup_in_new_schema(target_db, table, lookup_column, lookup_value) ==
  LET key == <<target_db, table>>
  IN IF key \notin DestKeys \/ lookup_column \notin TableColumns(key) THEN 0
     ELSE SelectId(db[key], {lookup_column}, [c \in {lookup_column} |-> lookup_value])

\* executor.py 882-898: _lookup_in_old_schema; [found, row]
lookup_in_old_schema(table, lookup_column, lookup_value) ==
  LET rows == IF table \in DOMAIN LegacyRows /\ lookup_column \in Range(SourceColumns[table])
              THEN SelectRows(LegacyRows[table], lookup_column, lookup_value)
              ELSE <<>>
  IN IF rows = <<>> THEN [found |-> FALSE, row |-> <<>>]
     ELSE [found |-> TRUE, row |-> Head(rows)]

\* self.id_mappings[table][column].get(value), 0 when any level is missing
CacheGet(cache, table, column, value) ==
  IF <<table, column, value>> \in DOMAIN cache THEN cache[<<table, column, value>>] ELSE 0

\* executor.py 854-864: the value an intra-source hop continues with
HopValue(step, found, current_value, columns) ==
  LET others == {i \in 1..Len(columns) :
                   columns[i] \notin {"id", "Id", "ID"} /\ Truthy(found[columns[i]])}
  IN IF step.return_column # NullV /\ step.return_column \in DOMAIN found
     THEN found[step.return_column]
     ELSE IF "username" \in DOMAIN found THEN found["username"]
     ELSE IF others = {} THEN current_value
     ELSE found[columns[CHOOSE i \in others : \A j \in others : i <= j]]

\* the result of a resolution: raised (the call threw), id (0 for None), curdb
\* (the database the connection is left in), hit (the cache key that answered, or <<>>)
Resolved(raisedNow, id, cdb, hit) ==
  [raised |-> raisedNow, id |-> id, curdb |-> cdb, hit |-> hit]

\* a variant of the hop that always asks the target database
NewSchemaHopUncached(cached, step, value, target_db, cdb) ==
  Resolved(FALSE, lookup_in_new_schema(target_db, step.new_table, step.new_column, value),
           target_db, <<>>)

\* executor.py 869-878: the hop into the new schema: the cache entry when it
\* holds an id, else a SELECT in the target database
NewSchemaHop(cached, step, value, target_db, cdb) ==
  IF cached # 0
  THEN Resolved(FALSE, cached, cdb, <<step.new_table, step.new_column, value>>)
  ELSE Resolved(FALSE, lookup_in_new_schema(target_db, step.new_table, step.new_column, value),
                target_db, <<>>)

RECURSIVE resolve_steps(_, _, _, _, _, _)
\* executor.py 868-878: after the old-schema part of step i, with the value it left
StepNewSchema(chain, i, step, value, source_row, target_db, cdb) ==
  IF step.new_table # NullV /\ step.new_column # NullV
  THEN NewSchemaHop(CacheGet(id_mappings, step.new_table, step.new_column, value),
                    step, value, target_db, cdb)
  ELSE resolve_steps(chain, i + 1, value, source_row, target_db, cdb)

\* executor.py 849-866: the old-schema lookup of step i answered res
StepOldSchema(chain, i, step, res, value, source_row, target_db) ==
  IF ~res.found THEN Resolved(FALSE, 0, SourceDb, <<>>)
  ELSE IF ~Truthy(HopValue(step, res.row, value, SourceColumns[step.lookup_in]))
  THEN Resolved(FALSE, 0, SourceDb, <<>>)
  ELSE StepNewSchema(chain, i, step,
                     HopValue(step, res.row, value, SourceColumns[step.lookup_in]),
                     source_row, target_db, SourceDb)

\* executor.py 839-851: step i with the value it starts from
StepFrom(chain, i, step, value, source_row, target_db, cdb) ==
  IF i = 1 /\ ~Truthy(value) THEN Resolved(FALSE, 0, cdb, <<>>)
  ELSE IF step.lookup_in # NullV /\ step.lookup_column # NullV
  THEN StepOldSchema(chain, i, step,
                     lookup_in_old_schema(step.lookup_in, step.lookup_column, value),
                     value, source_row, target_db)
  ELSE StepNewSchema(chain, i, step, value, source_row, target_db, cdb)

\* executor.py 828-880: the loop of _resolve_fk_chain from step i on; step.get
\* on an element that is no object raises
resolve_steps(chain, i, current_value, source_row, target_db, cdb) ==
  IF i > Len(chain) THEN Resolved(FALSE, 0, cdb, <<>>)
  ELSE IF ~chain[i].dict THEN Resolved(TRUE, 0, cdb, <<>>)
  ELSE StepFrom(chain, i, chain[i],
                IF i = 1 THEN RowGetS(source_row, chain[i].old_column) ELSE current_value,
                source_row, target_db, cdb)

\* executor.py 793-880: _resolve_fk_chain
resolve_fk_chain(source_row, lookup_chain, target_db, cdb) ==
  IF lookup_chain = <<>> THEN Resolved(FALSE, 0, cdb, <<>>)
  ELSE resolve_steps(lookup_chain, 1, NullV, source_row, target_db, cdb)

\* [raised, value, curdb, hit] of a field evaluation
FieldValue(raisedNow, value, cdb, hit) ==
  [raised |-> raisedNow, value |-> value, curdb |-> cdb, hit |-> hit]

\* executor.py 611-620: the value of a field with a lookup chain
ChainValue(res) == FieldValue(res.raised, res.id, res.curdb, res.hit)

\* executor.py 626-634: the user_id shortcut through the cache
UserIdValue(username, cdb) ==
  IF Truthy(username) /\ <<"users", "username", username>> \in DOMAIN id_mappings
  THEN FieldValue(FALSE, CacheGet(id_mappings, "users", "username", username), cdb,
                  <<"users", "username", username>>)
  ELSE FieldValue(FALSE, 0, cdb, <<>>)

\* executor.py 584-645: _get_field_value for a field without an sql snippet
get_field_value(row, info, target_db, cdb) ==
  IF info.lookup_chain # <<>>
  THEN ChainValue(resolve_fk_chain(row, info.lookup_chain, target_db, cdb))
  ELSE IF info.new_field = "user_id"
  THEN UserIdValue(IF "username" \in DOMAIN row THEN row["username"]
                   ELSE RowGetS(row, info.old_field), cdb)
  ELSE FieldValue(FALSE, RowGetS(row, info.old_field), cdb, <<>>)

\* executor.py 518: insert_data[new_field] = value, with the connection's database
\* and the cache entries used so far. [raised, data, curdb, hits]
PutField(acc, col, got) ==
  [raised |-> got.raised,
   data |-> IF got.raised THEN acc.data
            ELSE [c \in DOMAIN acc.data \cup {col} |->
                    IF c = col THEN got.value ELSE acc.data[c]],
   curdb |-> got.curdb,
   hits |-> IF got.hit = <<>> THEN acc.hits ELSE acc.hits \cup {got.hit}]

\* executor.py 494-518: the loop over field_list; a raise ends it
RECURSIVE eval_fields(_, _, _, _)
eval_fields(row, field_list, target_db, acc) ==
  IF field_list = <<>> \/ acc.raised THEN acc
  ELSE eval_fields(row, Tail(field_list), target_db,
                   PutField(acc, Head(field_list).new_field,
                            get_field_value(row, Head(field_list), target_db, acc.curdb)))

SiteUuidTables == {"rsi_config", "user_licenses", "devlog", "total_activity_metrics"}

\* executor.py 524-528: site_uuid is added for the central tables that carry one
AddSiteUuid(acc, target_db, target_table, site_uuid) ==
  IF /\ ~acc.raised
     /\ DOMAIN acc.data # {}
     /\ target_db = CentralDb
     /\ "site_uuid" \notin DOMAIN acc.data
     /\ target_table \in SiteUuidTables
  THEN [acc EXCEPT !.data = [c \in DOMAIN acc.data \cup {"site_uuid"} |->
                               IF c = "site_uuid" THEN site_uuid ELSE acc.data[c]]]
  ELSE acc

\* executor.py 492-528: insert_data of one source row
build_insert_data(row, field_list, target_db, target_table, site_uuid, cdb) ==
  AddSiteUuid(eval_fields(row, field_list, target_db,
                          [raised |-> FALSE, data |-> [c \in {} |-> NullV],
                           curdb |-> cdb, hits |-> {}]),
              target_db, target_table, site_uuid)

\* a plain INSERT whatever the constraints are
UpdateColsNone(data, unique_constraints) == {}

\* an update list of every inserted column
UpdateColsAll(data, unique_constraints) ==
  IF unique_constraints = <<>> THEN {} ELSE DOMAIN data

\* executor.py 536-551: the columns of ON DUPLICATE KEY UPDATE, {} for a plain INSERT
UpdateCols(data, unique_constraints) ==
  IF unique_constraints = <<>> THEN {} ELSE DOMAIN data \ {"id", "created_at"}

\* a variant that queries the first index whose columns are all in the data, and no other
RECURSIVE RecoverIdFirstOnly(_, _, _)
RecoverIdFirstOnly(rows, unique_constraints, data) ==
  IF unique_constraints = <<>> THEN 0
  ELSE IF Range(Head(unique_constraints)) \subseteq DOMAIN data
       THEN SelectId(rows, Range(Head(unique_constraints)), data)
       ELSE RecoverIdFirstOnly(rows, Tail(unique_constraints), data)

\* executor.py 558-569: the id recovered after lastrowid was 0
RECURSIVE RecoverId(_, _, _)
RecoverId(rows, unique_constraints, data) ==
  IF unique_constraints = <<>> THEN 0
  ELSE LET cols == Range(Head(unique_constraints))
           found == IF cols \subseteq DOMAIN data THEN SelectId(rows, cols, data) ELSE 0
       IN IF found # 0 THEN found ELSE RecoverId(rows, Tail(unique_constraints), data)

\* executor.py 558-569: the indexes the loop issues a SELECT for, in order
RECURSIVE RecoverQueries(_, _, _)
RecoverQueries(rows, unique_constraints, data) ==
  IF unique_constraints = <<>> THEN <<>>
  ELSE LET cols == Range(Head(unique_constraints))
       IN IF ~(cols \subseteq DOMAIN data)
          THEN RecoverQueries(rows, Tail(unique_constraints), data)
          ELSE IF SelectId(rows, cols, data) # 0 THEN <<Head(unique_constraints)>>
          ELSE <<Head(unique_constraints)>> \o RecoverQueries(rows, Tail(unique_constraints), data)

\* executor.py 767-785: the (lookup column, old value) pairs to cache
NaturalKeyColumns == {"username", "patient_id", "study_instance_uid", "series_instance_uid"}
KeysToCache(target_table, source_row, inserted_data) ==
  (IF "id" \in DOMAIN source_row /\ Truthy(source_row["id"])
   THEN {<<target_table, "id", source_row["id"]>>} ELSE {})
  \cup {<<target_table, c, inserted_data[c]>> :
          c \in {k \in NaturalKeyColumns \cap DOMAIN inserted_data : Truthy(inserted_data[k])}}

\* executor.py 744-791: _cache_id_mapping, as the cache it leaves
cache_id_mapping(cache, target_table, source_row, new_id, inserted_data) ==
  LET keys == KeysToCache(target_table, source_row, inserted_data)
  IN IF new_id = 0 THEN cache
     ELSE [k \in DOMAIN cache \cup keys |-> IF k \in keys THEN new_id ELSE cache[k]]

\* ---- the state before any call
ZeroStats == [tenant_tables |-> 0, central_tables |-> 0, total_rows |-> 0, errors |-> <<>>]
ZeroTableStats == [migrated |-> 0, skipped |-> 0, errors |-> 0]

\* What is recorded about the running call, for the properties below:
\*   registered, regFailed   how the registry step of this call ended
\*   fetches, writes         source fetches and row writes executed in this call
\*   attempted               the source tables whose loop body this call entered
\*   stepFailures            destination-table write steps of this call that threw
\*   rowAborts               write steps of this call left before their last row
\*   rerun                   the call's site had completed a call before
\*   dbAtStart, idsAtStart, ucAtStart   destination rows and caches when the call began
\*   lastWrite               outcome of the call's latest row write and its table
\*   hits                    the cache entries that answered the foreign keys of
\*                           the latest row evaluated
\*   written                 the destination tables a row write of this call succeeded in
\*   touched                 the destination tables the running migrate_table has
\*                           evaluated a row for
\*   cachedRows              the rows of the running write step whose ids were cached
\*   okWrites                row writes of this call whose INSERT executed without error
\*   lastRow                 the call's latest row write: the (database, table) pair
\*                           inspected, the table written, insert_data, the list the
\*                           inspector returned and whether it queried for it, the
\*                           update list of the statement, lastrowid, the indexes the
\*                           recovery queried, row_id and the cache keys of the row
\* and across calls:
\*   owner                   per cache entry, the site and the call that recorded it
\*                           last, and the databases whose rows it was recorded from
\*   completed               the sites that have had a whole call without a failure
\*   inspected               per (database, table) pair, how often the index metadata
\*                           was queried and the list the first query gave
\*   failedPairs             the pairs whose metadata query threw
NoRow ==
  [outcome |-> "none", pair |-> <<NullV, NullV>>, key |-> <<NullV, NullV>>,
   data |-> [c \in {} |-> NullV], list |-> <<>>, fresh |-> FALSE, update_cols |-> {},
   lastrowid |-> 0, queried |-> <<>>, row_id |-> 0, keys |-> {}]

LogInit ==
  [registered |-> FALSE, regFailed |-> FALSE, fetches |-> 0, writes |-> 0,
   attempted |-> {}, stepFailures |-> 0, rowAborts |-> 0,
   rerun |-> FALSE, written |-> {}, touched |-> {}, cachedRows |-> {}, dbAtStart |-> [k \in DestKeys |-> {}], hits |-> {},
   idsAtStart |-> [k \in {} |-> 0], ucAtStart |-> [k \in {} |-> <<>>],
   lastWrite |-> [outcome |-> "none", key |-> <<NullV, NullV>>],
   okWrites |-> 0, lastRow |-> NoRow,
   owner |-> [k \in {} |-> [site |-> NullV, run |-> 0, dbs |-> {}]],
   completed |-> {},
   inspected |-> [k \in {} |-> [count |-> 0, first |-> <<>>]],
   failedPairs |-> {}]

\* no call of the executor is running and none was made
CallIdle ==
  /\ unique_constraints_cache = [k \in {} |-> <<>>]
  /\ uncommitted = {}
  /\ pc = "idle"
  /\ site = NoSite
  /\ stats = ZeroStats
  /\ tblIdx = 0
  /\ kind = NullV
  /\ source_rows = <<>>
  /\ target_groups = NoGroups
  /\ sorted_tables = <<>>
  /\ tgtIdx = 0
  /\ tstats = ZeroTableStats
  /\ rowIdx = 0
  /\ migrated_count = 0
  /\ run = 0
  /\ faults = 0
  /\ raised = FALSE
  /\ log = LogInit

\* the executor just constructed, no call made yet
MainIdle ==
  /\ id_mappings = [k \in {} |-> 0]
  /\ db = [k \in DestKeys |-> {}]
  /\ curdb = NullV
  /\ CallIdle

\* ---------------------------------------------------------------- SpecSort
SortTables == (DOMAIN dependencies) \cup UNION {Range(dependencies[t]) : t \in DOMAIN dependencies}
                \cup {"site"}

SortIdle == sortIn = <<>> /\ sortOut = <<>> /\ sortDone = FALSE /\ sortDeps = dependencies
CaseIdle == caseExpr = [pairs |-> <<>>, els |-> <<>>] /\ caseRow = <<>>
            /\ caseOut = None /\ caseDone = FALSE
ChainIdle == chainIn = <<>> /\ chainRow = <<>> /\ chainOut = Resolved(FALSE, 0, NullV, <<>>)
             /\ chainDone = FALSE
GroupIdle == groupIn = <<>> /\ groupKind = NullV /\ groupOut = NoGroups /\ groupDone = FALSE
SqlIdle == sqlIn = <<>> /\ sqlRow = <<>> /\ sqlOut = None /\ sqlDone = FALSE

InitSort ==
  /\ sortIn \in DistinctSeqs(SortTables, MaxSortLen)
  /\ sortOut = <<>>
  /\ sortDone = FALSE
  /\ sortDeps = dependencies
  /\ CaseIdle
  /\ ChainIdle
  /\ SqlIdle
  /\ GroupIdle
  /\ mappings = MappingDoc(TRUE)
  /\ MainIdle

\* migrate_table line 280: sorted_tables = self._sort_targets_by_dependency(...)
SortTargets ==
  /\ ~sortDone
  /\ sortOut' = sort_targets_by_dependency(sortIn)
  /\ sortDone' = TRUE
  /\ UNCHANGED <<sortIn, sortDeps, caseVars, chainVars, groupVars, sqlVars, mainVars>>

NextSort == SortTargets

SpecSort == InitSort /\ [][NextSort]_vars

\* ---------------------------------------------------------------- SpecCase
InitCase ==
  /\ caseExpr \in CaseExprs
  /\ caseRow \in CaseRows
  /\ caseOut = None
  /\ caseDone = FALSE
  /\ SortIdle
  /\ ChainIdle
  /\ SqlIdle
  /\ GroupIdle
  /\ mappings = MappingDoc(TRUE)
  /\ MainIdle

\* _evaluate_sql_transform line 663-664: a snippet starting with CASE
EvalCase ==
  /\ ~caseDone
  /\ caseOut' = eval_case_statement(Render(caseExpr), caseRow)
  /\ caseDone' = TRUE
  /\ UNCHANGED <<caseExpr, caseRow, sortVars, chainVars, groupVars, sqlVars, mainVars>>

NextCase == EvalCase

SpecCase == InitCase /\ [][NextCase]_vars

\* ------------------------------------------------------------- SpecSortAny
\* the sort with the dependency table as an input: every table of AnyTables
\* lists up to two parents, itself possibly among them
AnyTables == {"a", "b", "c"}

InitSortAny ==
  /\ sortIn \in DistinctSeqs(AnyTables, MaxSortLen)
  /\ sortDeps \in [AnyTables -> DistinctSeqs(AnyTables, 2)]
  /\ sortOut = <<>>
  /\ sortDone = FALSE
  /\ CaseIdle
  /\ ChainIdle
  /\ GroupIdle
  /\ SqlIdle
  /\ mappings = MappingDoc(TRUE)
  /\ MainIdle

\* executor.py 403-432: the graph is built and sorted, with sortDeps as dependencies
SortTargetsBy ==
  /\ ~sortDone
  /\ sortOut' = SortBy(sortDeps, sortIn)
  /\ sortDone' = TRUE
  /\ UNCHANGED <<sortIn, sortDeps, caseVars, chainVars, groupVars, sqlVars, mainVars>>

NextSortAny == SortTargetsBy

SpecSortAny == InitSortAny /\ [][NextSortAny]_vars

\* ----------------------------------------------------------- SpecTransform
\* The snippets handed to _evaluate_sql_transform: a plain and two
\* table-qualified column references, a quoted literal, the null keyword,
\* SELECT snippets, a CASE expression and the empty string.
SqlExprs ==
  { <<"c">>, <<"t.c">>, <<"ss.c">>, <<"d">>, <<"t.d">>, <<"'x'">>, <<"NULL">>,
    <<"SELECT", "c", "FROM", "t">>, <<"SELECT", "t.c", "FROM", "t">>,
    <<"SELECT", "*", "FROM", "t">>,
    <<"CASE", "WHEN", "c", "=", "'x'", "THEN", "'A'", "ELSE", "'B'", "END">>,
    <<>> }

InitTransform ==
  /\ sqlIn \in SqlExprs
  /\ sqlRow \in CaseRows
  /\ sqlOut = None
  /\ sqlDone = FALSE
  /\ SortIdle
  /\ CaseIdle
  /\ ChainIdle
  /\ GroupIdle
  /\ mappings = MappingDoc(TRUE)
  /\ MainIdle

\* _get_field_value line 645: self._evaluate_sql_transform(sql_transform, row, site_info)
EvalTransform ==
  /\ ~sqlDone
  /\ sqlOut' = evaluate_sql_transform(sqlIn, sqlRow)
  /\ sqlDone' = TRUE
  /\ UNCHANGED <<sqlIn, sqlRow, sortVars, caseVars, chainVars, groupVars, mainVars>>

NextTransform == EvalTransform

SpecTransform == InitTransform /\ [][NextTransform]_vars

\* --------------------------------------------------------------- SpecChain
\* The chains handed to _resolve_fk_chain:
\*   series.PatientID -> patients.username -> users.username
\*   series.RefUID -> studies.study_instance_uid
\*   series.RefUID -> studies.study_instance_uid, then series.series_instance_uid
\*   series.RefUID read by a first step, resolved in studies by a second
ChainsIn ==
  { << LookupStep("PatientID", "patients", "PatientID", "username", "users", "username") >>,
    << ChainStep("series", "RefUID", "studies", "study_instance_uid") >>,
    << ChainStep("series", "RefUID", "studies", "study_instance_uid"),
       ChainStep(NullV, NullV, "series", "series_instance_uid") >>,
    << ChainStep("series", "RefUID", NullV, NullV),
       ChainStep(NullV, NullV, "studies", "study_instance_uid") >> }

\* source rows: a known patient and study, an unknown patient, a reference that
\* names a series and no study
ChainRowsIn ==
  { [PatientID |-> "P1", RefUID |-> "S1"],
    [PatientID |-> "P9", RefUID |-> NullV],
    [PatientID |-> NullV, RefUID |-> "R1"] }

\* states of self.id_mappings
CachesIn ==
  { [k \in {} |-> 0],
    [k \in {<<"users", "username", "alice">>} |-> 42],
    [k \in {<<"studies", "study_instance_uid", "S1">>,
            <<"series", "series_instance_uid", "R1">>} |->
       IF k[1] = "studies" THEN 7 ELSE 9] }

\* states of the tenant database: each of users, studies, series empty or with one row
TenantRowsIn(u, s, r) ==
  [k \in DestKeys |->
     IF k = <<"tenant_alice", "users">> THEN u
     ELSE IF k = <<"tenant_alice", "studies">> THEN s
     ELSE IF k = <<"tenant_alice", "series">> THEN r
     ELSE {}]
DbsIn ==
  { TenantRowsIn(u, s, r) :
      u \in {{}, {[id |-> 3, username |-> "alice"]}},
      s \in {{}, {[id |-> 1, study_instance_uid |-> "S1"]}},
      r \in {{}, {[id |-> 1, series_instance_uid |-> "R1", study_id |-> 0]}} }

InitChain ==
  /\ chainIn \in ChainsIn
  /\ chainRow \in ChainRowsIn
  /\ chainOut = Resolved(FALSE, 0, NullV, <<>>)
  /\ chainDone = FALSE
  /\ id_mappings \in CachesIn
  /\ db \in DbsIn
  /\ curdb \in {"tenant_alice", SourceDb}
  /\ CallIdle
  /\ mappings = MappingDoc(TRUE)
  /\ SortIdle
  /\ CaseIdle
  /\ GroupIdle
  /\ SqlIdle

\* _get_field_value line 613: self._resolve_fk_chain(row, lookup_chain, target_db)
ResolveChain ==
  /\ ~chainDone
  /\ chainOut' = resolve_fk_chain(chainRow, chainIn, "tenant_alice", curdb)
  /\ curdb' = chainOut'.curdb
  /\ chainDone' = TRUE
  /\ UNCHANGED <<chainIn, chainRow, sortVars, caseVars, groupVars, sqlVars, execVars, db, uncommitted,
                 frameVars, bookVars>>

NextChain == ResolveChain

SpecChain == InitChain /\ [][NextChain]_vars

\* --------------------------------------------------------------- SpecGroup
\* The entries of a field_mappings object: legacy entries whose target string is
\* "T.C", "T.site_name.old", "T" and "", a legacy entry under a key with the
\* metadata prefix, entries in the targets form, and an entry with neither key.
GroupFieldsIn ==
  { LegacyField("a", <<"T", "C">>),
    LegacyField("b", <<"T", "site_name", "old">>),
    LegacyField("c", <<"T">>),
    LegacyField("d", <<>>),
    LegacyField("_note", <<"U", "C">>),
    NewField("e", << Target("central", "T", "C2", <<>>) >>),
    NewField("f", << Target(NullV, "U", "C", <<>>), Target("tenant", "T", "C3", <<>>) >>),
    [old_field |-> "g", format |-> "sql", targets |-> <<>>, target |-> <<>>] }

InitGroup ==
  /\ groupIn \in DistinctSeqs(GroupFieldsIn, MaxFields)
  /\ groupKind \in {"tenant", "central"}
  /\ groupOut = NoGroups
  /\ groupDone = FALSE
  /\ mappings = MappingDoc(TRUE)
  /\ MainIdle
  /\ SortIdle
  /\ CaseIdle
  /\ ChainIdle
  /\ SqlIdle

\* migrate_table line 273: target_groups = self._group_targets(field_mappings, target_db_type)
GroupTargets ==
  /\ ~groupDone
  /\ groupOut' = group_targets(groupIn, groupKind)
  /\ groupDone' = TRUE
  /\ UNCHANGED <<groupIn, groupKind, sortVars, caseVars, chainVars, sqlVars, mainVars>>

NextGroup == GroupTargets

SpecGroup == InitGroup /\ [][NextGroup]_vars

\* ------------------------------------------------------- Spec: the actions
Init ==
  /\ mappings \in {MappingDoc(TRUE), MappingDoc(FALSE)}
  /\ MainIdle
  /\ SortIdle
  /\ CaseIdle
  /\ ChainIdle
  /\ SqlIdle
  /\ GroupIdle

migration_order == get_migration_order(mappings)
old_table == migration_order[tblIdx]
target_db == IF kind = "central" THEN CentralDb ELSE site.tenant_db
target_table == sorted_tables[tgtIdx]

\* executor.py 59-88: migrate_site is called; without a username it raises
StartMigrateSite(s) ==
  /\ pc = "idle"
  /\ run < MaxRuns
  /\ run' = run + 1
  /\ site' = s
  /\ stats' = ZeroStats
  /\ raised' = ~Truthy(s.username)
  /\ pc' = IF Truthy(s.username) THEN "register" ELSE "idle"
  /\ log' = [LogInit EXCEPT !.rerun = s.username \in log.completed, !.dbAtStart = db, !.idsAtStart = id_mappings,
                            !.ucAtStart = unique_constraints_cache,
                            !.owner = log.owner, !.completed = log.completed,
                            !.inspected = log.inspected, !.failedPairs = log.failedPairs]
  /\ UNCHANGED <<elseVars, execVars, connVars, tblIdx, kind, source_rows, target_groups,
                 sorted_tables, tgtIdx, tstats, rowIdx, migrated_count, faults>>

\* executor.py 159-178: the registry upsert (keyed by the unique site_uuid) and its commit
RegisteredWith(key, res) ==
  /\ db' = [db EXCEPT ![key] = res.rows]
  /\ log' = [log EXCEPT !.registered = TRUE,
                        !.lastWrite = [outcome |-> res.outcome, key |-> key]]

RegisterSite ==
  /\ pc = "register"
  /\ RegisteredWith(<<CentralDb, "sites_registry">>,
                    ExecInsert(db[<<CentralDb, "sites_registry">>],
                               <<CentralDb, "sites_registry">>,
                               [c \in {"site_uuid", "database_name", "site_name"} |->
                                  CASE c = "site_uuid" -> site.site_uuid
                                    [] c = "database_name" -> site.tenant_db
                                    [] c = "site_name" -> site.siteName],
                               {"site_name"}))
  /\ curdb' = CentralDb
  /\ uncommitted' = {}
  /\ pc' = "tables"
  /\ tblIdx' = 1
  /\ UNCHANGED <<elseVars, execVars, site, stats, kind, source_rows, target_groups, sorted_tables,
                 tgtIdx, tstats, rowIdx, migrated_count, run, faults, raised>>

\* a variant of the except clause without its return: the table loop is entered
RegisterFailsKeepGoing(usedDb) ==
  /\ stats' = [stats EXCEPT !.errors = Append(@, "sites_registry")]
  /\ curdb' = usedDb
  /\ pc' = "tables"
  /\ tblIdx' = 1
  /\ log' = [log EXCEPT !.regFailed = TRUE]

\* executor.py 93-96: the registry step throws; the stats are returned at once
RegisterFails(usedDb) ==
  /\ stats' = [stats EXCEPT !.errors = Append(@, "sites_registry")]
  /\ curdb' = usedDb
  /\ pc' = "idle"
  /\ tblIdx' = tblIdx
  /\ log' = [log EXCEPT !.regFailed = TRUE]

RegisterSiteFails ==
  /\ pc = "register"
  /\ faults < MaxFaults
  /\ faults' = faults + 1
  /\ \E usedDb \in {curdb, CentralDb} : RegisterFails(usedDb)
  /\ UNCHANGED <<elseVars, execVars, db, uncommitted, site, kind, source_rows, target_groups,
                 sorted_tables, tgtIdx, tstats, rowIdx, migrated_count, run, raised>>

\* executor.py 153-157: the loop over migration_order is over; the stats are returned
FinishMigrateSite ==
  /\ pc = "tables"
  /\ tblIdx > Len(migration_order)
  /\ pc' = "idle"
  /\ log' = [log EXCEPT !.completed = IF faults = 0 THEN @ \cup {site.username} ELSE @]
  /\ UNCHANGED <<elseVars, execVars, connVars, site, stats, tblIdx, kind, source_rows, target_groups,
                 sorted_tables, tgtIdx, tstats, rowIdx, migrated_count, run, faults, raised>>

\* executor.py 103-104: a table of the order that is unmapped or is metadata
SkipTable ==
  /\ pc = "tables"
  /\ tblIdx <= Len(migration_order)
  /\ old_table \notin MappedTables(mappings) \/ StartsWithUnderscore(old_table)
  /\ tblIdx' = tblIdx + 1
  /\ UNCHANGED <<elseVars, execVars, connVars, pc, site, stats, kind, source_rows, target_groups,
                 sorted_tables, tgtIdx, tstats, rowIdx, migrated_count, bookVars>>

\* executor.py 107-109, 233-235: SHOW COLUMNS throws; the table is skipped
FiltersFail ==
  /\ pc = "tables"
  /\ tblIdx <= Len(migration_order)
  /\ old_table \in MappedTables(mappings) /\ ~StartsWithUnderscore(old_table)
  /\ faults < MaxFaults
  /\ faults' = faults + 1
  /\ curdb' = SourceDb
  /\ tblIdx' = tblIdx + 1
  /\ log' = [log EXCEPT !.attempted = @ \cup {old_table}]
  /\ UNCHANGED <<elseVars, execVars, db, uncommitted, pc, site, stats, kind, source_rows,
                 target_groups, sorted_tables, tgtIdx, tstats, rowIdx, migrated_count,
                 run, raised>>

\* executor.py 107-122: the filter is derived; without one the table is skipped,
\* with one migrate_table is called for the tenant database
BeginTable ==
  /\ pc = "tables"
  /\ tblIdx <= Len(migration_order)
  /\ old_table \in MappedTables(mappings) /\ ~StartsWithUnderscore(old_table)
  /\ curdb' = SourceDb
  /\ log' = [log EXCEPT !.attempted = @ \cup {old_table}]
  /\ IF get_site_filters(old_table, site) = NoFilter
     THEN /\ tblIdx' = tblIdx + 1
          /\ UNCHANGED <<pc, kind>>
     ELSE /\ pc' = "fetch"
          /\ kind' = "tenant"
          /\ UNCHANGED tblIdx
  /\ UNCHANGED <<elseVars, execVars, db, uncommitted, site, stats, source_rows, target_groups,
                 sorted_tables, tgtIdx, tstats, rowIdx, migrated_count, run, faults, raised>>

\* executor.py 123-126, 137-140: migrate_table returned ts to migrate_site
AddTableStats(st, dbKind, ts) ==
  IF ts.migrated > 0
  THEN IF dbKind = "tenant"
       THEN [st EXCEPT !.tenant_tables = @ + 1, !.total_rows = @ + ts.migrated]
       ELSE [st EXCEPT !.central_tables = @ + 1, !.total_rows = @ + ts.migrated]
  ELSE st

ReturnFromMigrateTable(ts) ==
  /\ stats' = AddTableStats(stats, kind, ts)
  /\ IF kind = "tenant"
     THEN /\ kind' = "central"
          /\ pc' = "fetch"
          /\ UNCHANGED tblIdx
     ELSE /\ kind' = kind
          /\ pc' = "tables"
          /\ tblIdx' = tblIdx + 1

\* a variant without the except clause: the exception leaves migrate_site
TableExceptPropagates ==
  /\ stats' = stats
  /\ raised' = TRUE
  /\ pc' = "idle"
  /\ tblIdx' = tblIdx

\* executor.py 145-151: migrate_table threw; the table is reported and the loop goes on
TableExcept ==
  /\ stats' = [stats EXCEPT !.errors = Append(@, old_table)]
  /\ raised' = raised
  /\ pc' = "tables"
  /\ tblIdx' = tblIdx + 1

\* executor.py 268: _fetch_source_data throws
FetchFails ==
  /\ pc = "fetch"
  /\ faults < MaxFaults
  /\ faults' = faults + 1
  /\ curdb' = SourceDb
  /\ TableExcept
  /\ UNCHANGED <<elseVars, execVars, db, uncommitted, site, kind, source_rows, target_groups,
                 sorted_tables, tgtIdx, tstats, rowIdx, migrated_count, run, log>>

\* executor.py 262-280: migrate_table fetches, groups and orders
FetchAndGroup ==
  /\ pc = "fetch"
  /\ curdb' = SourceDb
  /\ log' = [log EXCEPT !.fetches = @ + 1, !.touched = {}]
  /\ LET rows == fetch_source_data(old_table, get_site_filters(old_table, site))
         groups == group_targets(FieldsOf(mappings, old_table), kind)
     IN IF rows = <<>> \/ groups.tables = <<>>
        THEN /\ ReturnFromMigrateTable(ZeroTableStats)
             /\ UNCHANGED <<source_rows, target_groups, sorted_tables, tgtIdx, tstats>>
        ELSE /\ source_rows' = rows
             /\ target_groups' = groups
             /\ sorted_tables' = sort_targets_by_dependency(groups.tables)
             /\ tgtIdx' = 1
             /\ tstats' = ZeroTableStats
             /\ pc' = "target"
             /\ UNCHANGED <<stats, kind, tblIdx>>
  /\ UNCHANGED <<elseVars, execVars, db, uncommitted, site, rowIdx, migrated_count, run, faults, raised>>

\* executor.py 300: every destination table was handled; migrate_table returns
EndMigrateTable ==
  /\ pc = "target"
  /\ tgtIdx > Len(sorted_tables)
  /\ ReturnFromMigrateTable(tstats)
  /\ UNCHANGED <<elseVars, execVars, connVars, site, source_rows, target_groups, sorted_tables,
                 tgtIdx, tstats, rowIdx, migrated_count, bookVars>>

\* executor.py 296-298: _migrate_to_target threw; counted, next destination table
TargetExcept ==
  /\ tstats' = [tstats EXCEPT !.errors = @ + 1]
  /\ tgtIdx' = tgtIdx + 1
  /\ pc' = "target"

\* executor.py 487-488: the cursor is opened and the target database selected
BeginTarget ==
  /\ pc = "target"
  /\ tgtIdx <= Len(sorted_tables)
  /\ curdb' = target_db
  /\ rowIdx' = 1
  /\ migrated_count' = 0
  /\ pc' = "rows"
  /\ log' = [log EXCEPT !.cachedRows = {}]
  /\ UNCHANGED <<elseVars, execVars, db, uncommitted, site, stats, tblIdx, kind, source_rows,
                 target_groups, sorted_tables, tgtIdx, tstats, run, faults, raised>>

\* executor.py 487-488: opening the cursor or USE throws
BeginTargetFails ==
  /\ pc = "target"
  /\ tgtIdx <= Len(sorted_tables)
  /\ faults < MaxFaults
  /\ faults' = faults + 1
  /\ TargetExcept
  /\ log' = [log EXCEPT !.stepFailures = @ + 1]
  /\ UNCHANGED <<elseVars, execVars, connVars, site, stats, tblIdx, kind, source_rows, target_groups,
                 sorted_tables, rowIdx, migrated_count, run, raised>>

\* a variant without the cache: every call queries
get_unique_constraints_uncached(cache, db_name, table_name, fails, cdb) ==
  LET key == <<db_name, table_name>>
  IN [list |-> IF fails \/ key \notin DestKeys THEN <<>> ELSE UniqueIndexes(key),
      cache |-> cache, curdb |-> db_name, queried |-> TRUE, failed |-> fails]

\* a variant that does not memoize the empty list of a query that threw
get_unique_constraints_retrying(cache, db_name, table_name, fails, cdb) ==
  LET key == <<db_name, table_name>>
      found == IF fails \/ key \notin DestKeys THEN <<>> ELSE UniqueIndexes(key)
  IN IF key \in DOMAIN cache
     THEN [list |-> cache[key], cache |-> cache, curdb |-> cdb,
           queried |-> FALSE, failed |-> FALSE]
     ELSE [list |-> found,
           cache |-> IF fails THEN cache
                     ELSE [k \in DOMAIN cache \cup {key} |-> IF k = key THEN found ELSE cache[k]],
           curdb |-> db_name, queried |-> TRUE, failed |-> fails]

\* executor.py 434-469: _get_unique_constraints for <<db_name, table_name>>;
\* fails says the INFORMATION_SCHEMA query throws. [list, cache, curdb] and
\* whether the query was issued (queried) and threw (failed)
get_unique_constraints(cache, db_name, table_name, fails, cdb) ==
  LET key == <<db_name, table_name>>
      found == IF fails \/ key \notin DestKeys THEN <<>> ELSE UniqueIndexes(key)
  IN IF key \in DOMAIN cache
     THEN [list |-> cache[key], cache |-> cache, curdb |-> cdb,
           queried |-> FALSE, failed |-> FALSE]
     ELSE [list |-> found,
           cache |-> [k \in DOMAIN cache \cup {key} |-> IF k = key THEN found ELSE cache[k]],
           curdb |-> db_name, queried |-> TRUE, failed |-> fails]

\* insert_data of the row the loop stands at (executor.py 492-528)
current_row == source_rows[rowIdx]
current_insert ==
  build_insert_data(current_row, target_groups.fields[target_table], target_db,
                    target_table, site.site_uuid, curdb)

\* who recorded the cache entries: the keys of a row written to database d by
\* the running call
RecordOwners(owner, keys, new_id, d) ==
  [k \in DOMAIN owner \cup (IF new_id = 0 THEN {} ELSE keys) |->
     IF new_id # 0 /\ k \in keys
     THEN [site |-> site.username, run |-> run,
           dbs |-> (IF k \in DOMAIN owner THEN owner[k].dbs ELSE {}) \cup {d}]
     ELSE owner[k]]

\* the metadata queries issued so far, after the inspection insp of pair
NoteInspection(inspected, pair, insp) ==
  IF ~insp.queried THEN inspected
  ELSE [k \in DOMAIN inspected \cup {pair} |->
          IF k # pair THEN inspected[k]
          ELSE IF pair \in DOMAIN inspected
               THEN [inspected[pair] EXCEPT !.count = @ + 1]
               ELSE [count |-> 1, first |-> insp.list]]

\* executor.py 494-518: evaluating a field of the row throws; nothing catches it
\* before migrate_table (296-298), so the rows left and the commit are skipped
RaiseFrom(built) ==
  /\ built.raised
  /\ curdb' = built.curdb
  /\ TargetExcept
  /\ log' = [log EXCEPT !.stepFailures = @ + 1, !.hits = built.hits,
                        !.touched = @ \cup {target_table}]

EvaluateRaises ==
  /\ pc = "rows"
  /\ rowIdx <= Len(source_rows)
  /\ RaiseFrom(current_insert)
  /\ UNCHANGED <<elseVars, execVars, db, uncommitted, site, stats, tblIdx, kind, source_rows,
                 target_groups, sorted_tables, rowIdx, migrated_count, run, faults, raised>>

\* executor.py 553-578: the INSERT was executed (or threw) with result res in
\* table key; lastrowid is what the cursor reports, row_id what is cached
AfterInsert(data, insp, key, res, lastrowid, row_id, hits) ==
  /\ db' = IF res.outcome # "error" THEN [db EXCEPT ![key] = res.rows] ELSE db
  /\ uncommitted' = IF res.outcome # "error" THEN uncommitted \cup {key} ELSE uncommitted
  /\ id_mappings' = IF res.outcome # "error"
                    THEN cache_id_mapping(id_mappings, target_table, current_row, row_id, data)
                    ELSE id_mappings
  /\ migrated_count' = IF res.outcome # "error" THEN migrated_count + 1 ELSE migrated_count
  /\ log' = [log EXCEPT !.writes = @ + 1,
                        !.lastWrite = [outcome |-> res.outcome, key |-> key],
                        !.hits = hits,
                        !.touched = @ \cup {target_table},
                        !.written = IF res.outcome # "error" THEN @ \cup {key} ELSE @,
                        !.cachedRows = IF res.outcome # "error" /\ row_id # 0
                                       THEN @ \cup {rowIdx} ELSE @,
                        !.owner = IF res.outcome # "error"
                                  THEN RecordOwners(@, KeysToCache(target_table, current_row, data),
                                                    row_id, key[1])
                                  ELSE @,
                        !.okWrites = IF res.outcome # "error" THEN @ + 1 ELSE @,
                        !.lastRow =
                           [outcome |-> res.outcome,
                            pair |-> <<target_db, target_table>>,
                            key |-> key,
                            data |-> data,
                            list |-> insp.list,
                            fresh |-> insp.queried,
                            update_cols |-> UpdateCols(data, insp.list),
                            lastrowid |-> lastrowid,
                            queried |-> IF res.outcome # "error" /\ lastrowid = 0
                                        THEN RecoverQueries(res.rows, insp.list, data)
                                        ELSE <<>>,
                            row_id |-> row_id,
                            keys |-> KeysToCache(target_table, current_row, data)],
                        !.inspected = NoteInspection(@, <<target_db, target_table>>, insp),
                        !.failedPairs = IF insp.failed THEN @ \cup {<<target_db, target_table>>}
                                        ELSE @]

\* executor.py 555-569: row_id is lastrowid, or the id found through the first
\* unique index that finds one when lastrowid is 0
RowId(lastrowid, rows, list, data) ==
  IF lastrowid = 0 /\ list # <<>> THEN RecoverId(rows, list, data) ELSE lastrowid

Recorded(data, insp, key, res, lastrowid, hits) ==
  AfterInsert(data, insp, key, res, lastrowid,
              RowId(lastrowid, res.rows, insp.list, data), hits)

Executed(data, insp, key, res, zeroId, hits) ==
  /\ zeroId => res.outcome = "updated"
  /\ Recorded(data, insp, key, res, IF zeroId THEN 0 ELSE res.id, hits)

\* executor.py 553: cursor.execute(sql, values) in the connection's current database
Execute(data, insp, key, insertFails, zeroId, hits) ==
  Executed(data, insp, key,
           IF key \in DestKeys /\ ~insertFails
           THEN ExecInsert(db[key], key, data, UpdateCols(data, insp.list))
           ELSE [outcome |-> "error", rows |-> {}, id |-> 0],
           zeroId, hits)

\* executor.py 537: the constraints were looked up, insp is what the lookup left
Inspected(built, insp, insertFails, zeroId) ==
  /\ unique_constraints_cache' = insp.cache
  /\ curdb' = insp.curdb
  /\ Execute(built.data, insp, <<insp.curdb, target_table>>, insertFails, zeroId,
             built.hits)

WriteFrom(built, inspectFails, insertFails, zeroId) ==
  /\ ~built.raised
  /\ DOMAIN built.data # {}
  /\ Inspected(built,
               get_unique_constraints(unique_constraints_cache, target_db, target_table,
                                      inspectFails, built.curdb),
               insertFails, zeroId)

\* executor.py 520-578: one row is built and written. inspectFails and insertFails
\* say that the constraint query and the INSERT throw; zeroId that lastrowid is 0
\* after an update of an existing row.
WriteRow(inspectFails, insertFails, zeroId) ==
  /\ pc = "rows"
  /\ rowIdx <= Len(source_rows)
  /\ inspectFails => <<target_db, target_table>> \notin DOMAIN unique_constraints_cache
  /\ faults + (IF inspectFails THEN 1 ELSE 0) + (IF insertFails THEN 1 ELSE 0) <= MaxFaults
  /\ faults' = faults + (IF inspectFails THEN 1 ELSE 0) + (IF insertFails THEN 1 ELSE 0)
  /\ WriteFrom(current_insert, inspectFails, insertFails, zeroId)
  /\ rowIdx' = rowIdx + 1
  /\ UNCHANGED <<elseVars, mappings, pc, site, stats, tblIdx, kind, source_rows, target_groups,
                 sorted_tables, tgtIdx, tstats, run, raised>>

\* executor.py 580-582: after the last row the writes are committed and the count returned
CommitTarget ==
  /\ pc = "rows"
  /\ rowIdx > Len(source_rows)
  /\ uncommitted' = {}
  /\ tstats' = [tstats EXCEPT !.migrated = @ + migrated_count]
  /\ tgtIdx' = tgtIdx + 1
  /\ pc' = "target"
  /\ UNCHANGED <<elseVars, execVars, db, curdb, site, stats, tblIdx, kind, source_rows, target_groups,
                 sorted_tables, rowIdx, migrated_count, bookVars>>

Next ==
  \/ \E s \in SiteInfos : StartMigrateSite(s)
  \/ RegisterSite
  \/ RegisterSiteFails
  \/ FinishMigrateSite
  \/ SkipTable
  \/ FiltersFail
  \/ BeginTable
  \/ FetchFails
  \/ FetchAndGroup
  \/ EndMigrateTable
  \/ BeginTarget
  \/ BeginTargetFails
  \/ EvaluateRaises
  \/ \E inspectFails, insertFails, zeroId \in BOOLEAN : WriteRow(inspectFails, insertFails, zeroId)
  \/ CommitTarget

Spec == Init /\ [][Next]_vars

\* -------------------------------------------------------------- SpecFields
\* migrate_site over further mapping documents, with a database server that
\* never fails
FieldDocs == {HopDoc, VisitsDoc, AccountsDoc, StampDoc, PatientsDoc, MappingDoc(FALSE)}

InitFields ==
  /\ mappings \in FieldDocs
  /\ MainIdle
  /\ SortIdle
  /\ CaseIdle
  /\ ChainIdle
  /\ SqlIdle
  /\ GroupIdle

NextFields ==
  \/ \E s \in SiteInfos : StartMigrateSite(s)
  \/ RegisterSite
  \/ FinishMigrateSite
  \/ SkipTable
  \/ BeginTable
  \/ FetchAndGroup
  \/ EndMigrateTable
  \/ BeginTarget
  \/ EvaluateRaises
  \/ \E zeroId \in BOOLEAN : WriteRow(FALSE, FALSE, zeroId)
  \/ CommitTarget

SpecFields == InitFields /\ [][NextFields]_vars

\* ================================================================= claims

\* ---- C2 (SpecSort)
\* true when a comes before b in the list s (both present)
Before(s, a, b) == IndexOf(s, a) # 0 /\ IndexOf(s, b) # 0 /\ IndexOf(s, a) < IndexOf(s, b)

\* C2: in the list the dependency sort returns, every input table with an entry in
\* the dependency table comes after each of its listed parents that is in the input.
C2_DependencyOrder ==
  sortDone =>
    \A child \in Range(sortIn) \cap DOMAIN dependencies :
      \A parent \in Range(dependencies[child]) \cap Range(sortIn) :
        Before(sortOut, parent, child)

\* a sorted input that listed a child ahead of its parent
C2_Witness ==
  /\ sortDone
  /\ \E child \in Range(sortIn) \cap DOMAIN dependencies :
       \E parent \in Range(dependencies[child]) \cap Range(sortIn) :
         Before(sortIn, child, parent) /\ Before(sortOut, parent, child)

\* ---- C9 (SpecCase)
\* what the CASE construct denotes: the value of the first pair, in textual order,
\* whose condition is true of the row, else the ELSE value, else null
CaseMeaning(e, row) ==
  LET hit == FirstTrue(e.pairs, row)
  IN IF hit # 0 THEN eval_value(e.pairs[hit].val, row)
     ELSE IF e.els # <<>> THEN eval_value(e.els, row)
     ELSE None

\* C9: for a CASE expression with any number of WHEN/THEN pairs the evaluator
\* returns the THEN value of the first pair whose condition is true, else the ELSE
\* value, else null.
C9_FirstTrueWhenWins == caseDone => caseOut = CaseMeaning(caseExpr, caseRow)

\* ---- C10 (SpecCase)
CaseEqXThenAElseB ==
  [pairs |-> <<[cond |-> <<"c", "=", "'x'">>, val |-> <<"'A'">>]>>, els |-> <<"'B'">>]
CaseNullThenNullElseC ==
  [pairs |-> <<[cond |-> <<"c", "IS", "NULL">>, val |-> <<"NULL">>]>>, els |-> <<"c">>]

\* C10: CASE WHEN c = 'x' THEN 'A' ELSE 'B' END is 'A' on a row whose c is 'x' and
\* 'B' on a row whose c is anything else; CASE WHEN c IS NULL THEN NULL ELSE c END
\* is null on a row whose c is null and the row's c otherwise.
C10_SingleWhenResults ==
  (caseDone /\ "c" \in DOMAIN caseRow) =>
    /\ caseExpr = CaseEqXThenAElseB =>
         caseOut = IF caseRow["c"] = StrV("x") THEN StrV("A") ELSE StrV("B")
    /\ caseExpr = CaseNullThenNullElseC =>
         caseOut = IF caseRow["c"] = None THEN None ELSE caseRow["c"]

\* the ELSE branch of the first expression taken on a row whose c is not 'x'
C10_Witness ==
  /\ caseDone
  /\ caseExpr = CaseEqXThenAElseB
  /\ "c" \in DOMAIN caseRow
  /\ caseRow["c"] = IntV("5")
  /\ caseOut = StrV("B")

\* ---- C1 (Spec)
\* the destination tables with a unique index on their natural key
Covered(key) == UniqueIndexes(key) # <<>>

\* C1: while and after a site is migrated again through calls in which nothing
\* failed in the environment, every destination table covered by a unique index
\* has the row count it had when the call began, and every write of the call to
\* such a table was an update of an existing row.
C1_Idempotent ==
  (log.rerun /\ faults = 0) =>
     /\ \A k \in DestKeys :
          Covered(k) => Cardinality(db[k]) = Cardinality(log.dbAtStart[k])
     /\ (log.lastWrite.key \in DestKeys /\ Covered(log.lastWrite.key))
          => log.lastWrite.outcome = "updated"

\* a second call for alice has rewritten rows of her tenant series table
C1_Witness ==
  /\ log.rerun
  /\ faults = 0
  /\ log.writes >= 4
  /\ log.lastWrite = [outcome |-> "updated", key |-> <<"tenant_alice", "series">>]

\* ---- C3 (Spec)
\* C3: the write step of a destination table is left only after its last source
\* row, and with its writes committed.
C3_RowFailureIsolated ==
  [][(pc = "rows" /\ pc' # "rows") => (rowIdx > Len(source_rows) /\ uncommitted' = {})]_vars

\* ---- C4 (Spec)
\* C4: when migrate_site has returned a report with an empty errors list, no
\* write step of a destination table failed as a whole during the call.
C4_TableFailuresReported ==
  (pc = "idle" /\ run > 0 /\ ~raised /\ stats.errors = <<>>) => log.stepFailures = 0

\* ---- C5 (Spec)
\* C5: after the registry upsert failed the call is over, it fetched no source
\* table and wrote no row, and the destination tables and both caches are what
\* they were when the call began.
C5_RegistryFailureFatal ==
  log.regFailed =>
     /\ pc = "idle"
     /\ log.fetches = 0
     /\ log.writes = 0
     /\ db = log.dbAtStart
     /\ id_mappings = log.idsAtStart
     /\ unique_constraints_cache = log.ucAtStart

\* the registry step of a later call failed, with both caches already filled
C5_Witness ==
  /\ log.regFailed
  /\ pc = "idle"
  /\ run = 2
  /\ DOMAIN id_mappings # {}
  /\ DOMAIN unique_constraints_cache # {}
  /\ stats.errors = <<"sites_registry">>

\* ---- C6 (Spec)
\* the source tables whose loop body migrate_site enters
AttemptableTables ==
  {t \in Range(migration_order) : t \in MappedTables(mappings) /\ ~StartsWithUnderscore(t)}

\* C6: once the registry step has succeeded the call does not raise, and when it
\* has returned every mapped source table of the migration order was attempted.
C6_TableFailuresContained ==
  log.registered =>
     /\ ~raised
     /\ pc = "idle" => log.attempted = AttemptableTables

\* a call returned after the fetch of one of its source tables had thrown
C6_Witness ==
  /\ log.registered
  /\ pc = "idle"
  /\ Len(stats.errors) = 1
  /\ stats.errors[1] \in {"studies", "series"}
  /\ log.attempted = AttemptableTables

\* ---- C7 (Spec)
\* C7: within a call, a cache entry under a natural-key column is neither
\* removed nor given another id.
C7_CacheMonotone ==
  [][run' = run =>
       \A k \in DOMAIN id_mappings :
          k[2] \in NaturalKeyColumns =>
             (k \in DOMAIN id_mappings' /\ id_mappings'[k] = id_mappings[k])]_vars

\* ---- C8 (Spec)
\* C8: every cache entry that answered a foreign key of the row last evaluated
\* was recorded while the site now being migrated was migrated.
C8_CacheIsolation ==
  \A k \in log.hits : log.owner[k].site = site.username

\* ---- C15 (Spec)
\* C15: in the report of a call that got past the registry step, tenant_tables is
\* the number of tenant destination tables a row was written to during the call,
\* and central_tables the number of central destination tables.
C15_TableCounts ==
  (pc = "idle" /\ run > 0 /\ log.registered) =>
     /\ stats.tenant_tables = Cardinality({k \in log.written : k[1] # CentralDb})
     /\ stats.central_tables = Cardinality({k \in log.written : k[1] = CentralDb})

\* ---- C19 (Spec)
\* C19: while a row of a destination table is still to be evaluated, no table
\* that lists this table as a parent has had a row evaluated in the running
\* migrate_table; and every earlier row of the write step whose id was cached
\* has its legacy id in the cache before the next row is evaluated.
C19_WriteOrdering ==
  /\ (pc = "rows" /\ rowIdx <= Len(source_rows)) =>
        \A child \in log.touched : target_table \notin Range(DepsOf(dependencies, child))
  /\ pc = "rows" =>
        \A i \in log.cachedRows :
           /\ i < rowIdx
           /\ Truthy(RowGetS(source_rows[i], "id")) =>
                <<target_table, "id", source_rows[i]["id"]>> \in DOMAIN id_mappings

\* the second series row is about to be evaluated, after the studies step of the
\* same migrate_table and after the first series row was cached
C19_Witness ==
  /\ pc = "rows"
  /\ sorted_tables = <<"studies", "series">>
  /\ tgtIdx = 2
  /\ rowIdx = 2
  /\ rowIdx <= Len(source_rows)
  /\ log.touched = {"studies", "series"}
  /\ log.cachedRows = {1}

\* ---- C20 (Spec)
\* C20: outside the row loop of a write step no executed write is uncommitted.
C20_NoUncommittedLeft ==
  pc # "rows" => uncommitted = {}

\* ---- C11 (SpecFields)
\* the fields of the running write step that have a lookup chain
ChainFields == {info \in Range(target_groups.fields[target_table]) : info.lookup_chain # <<>>}
\* the row the loop stands at evaluates without a raise, and some chain of it
\* resolves to nothing
ResolutionMissed(built) ==
  /\ ~built.raised
  /\ \E info \in ChainFields : built.data[info.new_field] = 0

\* C11: when a row is evaluated and a lookup chain of it resolves to nothing, the
\* row is written to the destination table of the step, with NULL in the chain's
\* column, and counted as migrated.
C11_MissIsNotAnError ==
  [][ (pc = "rows" /\ rowIdx' = rowIdx + 1 /\ ResolutionMissed(current_insert)) =>
        /\ migrated_count' = migrated_count + 1
        /\ log'.lastWrite.outcome # "error"
        /\ log'.lastWrite.key = <<target_db, target_table>> ]_vars

\* ---- C12 (SpecFields)
\* the fields of the running write step without a lookup chain (the documents of
\* the model carry no transformation)
PassthroughFields == {info \in Range(target_groups.fields[target_table]) : info.lookup_chain = <<>>}

\* C12: after a row is written, the destination table holds a row whose column
\* for every passthrough field equals the source row's value of the source column.
C12_PassthroughRoundTrip ==
  [][ (pc = "rows" /\ rowIdx' = rowIdx + 1 /\ log'.lastWrite.outcome # "error") =>
        \E r \in db'[log'.lastWrite.key] :
           \A info \in PassthroughFields :
              r[info.new_field] = RowGetS(current_row, info.old_field) ]_vars

\* ---- C14 (SpecFields)
\* a target of the document declares a database kind other than tenant and central
DeclaresUnknownKind(doc) ==
  \E i \in 1..Len(doc) : \E j \in 1..Len(doc[i].fields) :
     \E k \in 1..Len(doc[i].fields[j].targets) :
        doc[i].fields[j].targets[k].db \notin {"tenant", "central", NullV}

\* C14: with a document that declares a database kind other than tenant and
\* central, no migration step ever runs: no registry write, no fetch of source
\* rows, no row write.
C14_UnknownKindRejected ==
  DeclaresUnknownKind(mappings) =>
     ~log.registered /\ log.fetches = 0 /\ log.writes = 0

\* ---- C16 (SpecFields)
\* C16: once the first call, for alice with the accounts document, has returned,
\* the tenant site table and the central sites_registry each hold exactly one
\* row, both with the account name as site_name, and the report counts a tenant
\* table and a central table and no error.
C16_EndToEnd ==
  (mappings = AccountsDoc /\ run = 1 /\ site = SiteAlice /\ pc = "idle") =>
     /\ Cardinality(db[<<"tenant_alice", "site">>]) = 1
     /\ Cardinality(db[<<CentralDb, "sites_registry">>]) = 1
     /\ \A r \in db[<<"tenant_alice", "site">>] \cup db[<<CentralDb, "sites_registry">>] :
           r.site_name = "Alice Co"
     /\ stats.tenant_tables >= 1
     /\ stats.central_tables >= 1
     /\ stats.errors = <<>>

\* ---- C17, C18 (SpecChain)
\* what a final-resolution hop answers for a value: the cache entry for (table,
\* column, value) when there is one, else the id of the destination row holding
\* the value in the column, else nothing (0)
HopAnswer(step, value) ==
  LET key == <<step.new_table, step.new_column, value>>
      ids == {r.id : r \in {x \in db[<<"tenant_alice", step.new_table>>] :
                               x[step.new_column] = value}}
  IN IF key \in DOMAIN id_mappings THEN id_mappings[key]
     ELSE IF ids = {} THEN 0 ELSE MinId(ids)

\* the steps of a chain that name a destination table and column
FinalHops(chain) ==
  {i \in 1..Len(chain) : chain[i].new_table # NullV /\ chain[i].new_column # NullV}

\* the answer of the first final hop, in chain order, that answers an id
FirstAnswer(chain, value) ==
  LET answering == {i \in FinalHops(chain) : HopAnswer(chain[i], value) # 0}
  IN IF answering = {} THEN 0
     ELSE HopAnswer(chain[CHOOSE i \in answering : \A j \in answering : i <= j], value)

\* C17: for a chain without intra-source lookups whose first step reads a value,
\* the result is the answer of the first final-resolution hop that answers an
\* id, and nothing only when no hop answers one.
C17_FirstAnsweringHopWins ==
  (/\ chainDone
   /\ \A i \in 1..Len(chainIn) : chainIn[i].lookup_in = NullV
   /\ Truthy(RowGetS(chainRow, chainIn[1].old_column))) =>
     chainOut.id = FirstAnswer(chainIn, RowGetS(chainRow, chainIn[1].old_column))

\* the value a one-step chain brings to its final hop: the source column, or the
\* return column of the legacy row the intra-source lookup finds (NullV when the
\* column is empty or no row is found)
ReachedValue(step, row) ==
  LET first == RowGetS(row, step.old_column)
      found == {i \in 1..Len(LegacyRows[step.lookup_in]) :
                  LegacyRows[step.lookup_in][i][step.lookup_column] = first}
  IN IF step.lookup_in = NullV \/ first = NullV THEN first
     ELSE IF found = {} THEN NullV
     ELSE LegacyRows[step.lookup_in][CHOOSE i \in found : \A j \in found : i <= j][step.return_column]

\* C18: when a one-step chain reaches its final hop with a value, a cache entry
\* for (table, column, value) is the result and the destination database is not
\* asked (the cache entry is what answered; after an intra-source lookup the
\* connection still stands in the legacy database); without an entry the result
\* is the id of the destination row holding the value, or nothing, and the
\* connection was switched to the destination database to ask.
C18_CacheBeforeQuery ==
  (chainDone /\ Len(chainIn) = 1 /\ Truthy(ReachedValue(chainIn[1], chainRow))) =>
     LET step == chainIn[1]
         value == ReachedValue(step, chainRow)
         key == <<step.new_table, step.new_column, value>>
     IN IF key \in DOMAIN id_mappings
        THEN /\ chainOut.id = id_mappings[key]
             /\ chainOut.hit = key
             /\ step.lookup_in # NullV => curdb = SourceDb
        ELSE /\ chainOut.id = HopAnswer(step, value)
             /\ chainOut.hit = <<>>
             /\ curdb = "tenant_alice"

\* series.PatientID -> patients.username -> users.username was resolved from the
\* cache entry users.username.alice -> 42, with another id in the users table
C18_Witness ==
  /\ chainDone
  /\ chainIn = << LookupStep("PatientID", "patients", "PatientID", "username", "users", "username") >>
  /\ chainRow.PatientID = "P1"
  /\ <<"users", "username", "alice">> \in DOMAIN id_mappings
  /\ db[<<"tenant_alice", "users">>] # {}
  /\ chainOut.id = 42
  /\ curdb = SourceDb

\* ---- C13 (SpecGroup)
\* where the grouping result holds an entry for a source field: <<table, position>>
EntriesOf(groups, old_field) ==
  {p \in Range(groups.tables) \X (1..MaxFields) :
     /\ p[2] <= Len(groups.fields[p[1]])
     /\ groups.fields[p[1]][p[2]].old_field = old_field}

\* C13: a legacy entry {"target": "T.C"} (under a key without the metadata
\* prefix) gives, in the grouping for the tenant kind, exactly one entry: in
\* table T, for column C (the text after the first dot); in the grouping for
\* the central kind it gives none.
C13_LegacyNormalized ==
  groupDone =>
     \A i \in 1..Len(groupIn) :
        (/\ groupIn[i].format = "target"
         /\ Len(groupIn[i].target) >= 2
         /\ ~StartsWithUnderscore(groupIn[i].old_field)) =>
           LET f == groupIn[i]
               entries == EntriesOf(groupOut, f.old_field)
           IN IF groupKind = "tenant"
              THEN /\ Cardinality(entries) = 1
                   /\ \A p \in entries :
                         /\ p[1] = f.target[1]
                         /\ groupOut.fields[p[1]][p[2]].new_field =
                              (IF Len(f.target) = 2 THEN f.target[2] ELSE "site_name.old")
              ELSE entries = {}

\* "T.C" was grouped for the tenant kind next to an entry in the targets form
\* that also writes table T
C13_Witness ==
  /\ groupDone
  /\ groupKind = "tenant"
  /\ Len(groupIn) = 2
  /\ groupIn[1].old_field = "f"
  /\ groupIn[2] = LegacyField("a", <<"T", "C">>)
  /\ groupOut.tables = <<"U", "T">>
  /\ Len(groupOut.fields["T"]) = 2
  /\ groupOut.fields["T"][2].new_field = "C"

\* ---- C24 (SpecSort)
\* neither table is listed as a parent of the other
Undeclared(a, b) ==
  /\ b \notin Range(DepsOf(dependencies, a))
  /\ a \notin Range(DepsOf(dependencies, b))

\* C24: two input tables without a declared dependency between them come out
\* of the dependency sort in the order they went in.
C24_OrderStable ==
  sortDone =>
    \A a, b \in Range(sortIn) :
       (Undeclared(a, b) /\ Before(sortIn, a, b)) => Before(sortOut, a, b)

\* ---- C25 (SpecSortAny)
\* C25: whatever the dependency table, cyclic or not, the sort returns every
\* input table exactly once and no other table.
C25_SortIsPermutation ==
  sortDone =>
    /\ Len(sortOut) = Len(sortIn)
    /\ Range(sortOut) = Range(sortIn)

\* a and b list each other as parents and c lists itself; all three were sorted
C25_Witness ==
  /\ sortDone
  /\ sortIn = <<"a", "b", "c">>
  /\ sortDeps["a"] = <<"b">>
  /\ sortDeps["b"] = <<"a">>
  /\ sortDeps["c"] = <<"c">>
  /\ sortOut = <<"b", "a", "c">>

\* ---- C26 (SpecTransform)
\* C26: a snippet that is a column reference, plain or table-qualified,
\* evaluates to the row's value of the column.
C26_BareColumnReference ==
  (sqlDone /\ sqlIn \in {<<"c">>, <<"t.c">>, <<"ss.c">>}) =>
     sqlOut = RowGet(sqlRow, "c")

\* ---- C27 (SpecTransform)
\* C27: a snippet that is a quoted literal evaluates to the literal's text, and
\* the null keyword evaluates to null.
C27_LiteralTransform ==
  sqlDone =>
     /\ sqlIn = <<"'x'">> => sqlOut = StrV("x")
     /\ sqlIn = <<"NULL">> => sqlOut = None

\* ---- C29 (Spec)
\* C29: the total_rows of a returned report is the number of row writes that
\* executed without error during the call.
C29_CountMatchesWrites ==
  (pc = "idle" /\ run > 0 /\ ~raised) => stats.total_rows = log.okWrites

\* ---- C28 (Spec)
\* C28: no cache entry was recorded from rows of more than one database, and the
\* entries that answered the foreign keys of a row were recorded from rows of the
\* database the row is written to.
C28_CacheWithinDatabase ==
  /\ \A k \in DOMAIN log.owner : Cardinality(log.owner[k].dbs) <= 1
  /\ (pc = "rows" /\ rowIdx > 1) => \A k \in log.hits : log.owner[k].dbs = {target_db}

\* ---- C23 (Spec)
\* C23: the index metadata of a (database, table) pair was queried at most once,
\* the cache holds what that query gave, and the inspection of the latest row
\* write returned that list.
C23_InspectedOnce ==
  /\ DOMAIN log.inspected = DOMAIN unique_constraints_cache
  /\ \A p \in DOMAIN log.inspected :
        /\ log.inspected[p].count = 1
        /\ unique_constraints_cache[p] = log.inspected[p].first
  /\ log.lastRow.outcome # "none" =>
        /\ log.lastRow.pair \in DOMAIN log.inspected
        /\ log.lastRow.list = log.inspected[log.lastRow.pair].first

\* the second call for alice wrote a series row with the list memoized in the first
C23_Witness ==
  /\ run = 2
  /\ log.lastRow.pair = <<"tenant_alice", "series">>
  /\ log.lastRow.pair \in DOMAIN log.ucAtStart
  /\ ~log.lastRow.fresh
  /\ log.lastRow.list = << <<"series_instance_uid">> >>
  /\ log.lastRow.outcome = "updated"

\* ---- C30 (Spec)
\* C30: once the metadata query of a pair has thrown, the cache holds the empty
\* list for the pair, the query was not issued again, and a row write to the
\* pair is a plain INSERT.
C30_FailureSticky ==
  \A p \in log.failedPairs :
     /\ p \in DOMAIN unique_constraints_cache
     /\ unique_constraints_cache[p] = <<>>
     /\ log.inspected[p].count = 1
     /\ log.lastRow.pair = p => (log.lastRow.list = <<>> /\ log.lastRow.update_cols = {})

\* the query for alice's series table threw in the first call; the second call
\* wrote a series row without querying again
C30_Witness ==
  /\ run = 2
  /\ <<"tenant_alice", "series">> \in log.failedPairs
  /\ <<"tenant_alice", "series">> \in DOMAIN log.ucAtStart
  /\ log.lastRow.pair = <<"tenant_alice", "series">>
  /\ ~log.lastRow.fresh
  /\ log.lastRow.update_cols = {}

\* ---- C21 (SpecFields)
\* the inserted columns an upsert may update
Updatable(data) == DOMAIN data \ {"id", "created_at"}

Eligible(list, data) ==
  LET AllPresent(u) == Range(u) \subseteq DOMAIN data
  IN SelectSeq(list, AllPresent)

\* C22 as stated: a reported id is the one cached; without one, the first
\* eligible index is the only one queried.
C22_OnlyFirstSetQueried ==
  LET r == log.lastRow
      el == Eligible(r.list, r.data)
  IN r.outcome \notin {"none", "error"} =>
       /\ r.lastrowid # 0 =>
            /\ r.row_id = r.lastrowid
            /\ \A k \in r.keys : k \in DOMAIN id_mappings /\ id_mappings[k] = r.row_id
       /\ r.lastrowid = 0 => r.queried = SubSeq(el, 1, IF el = <<>> THEN 0 ELSE 1)

\* C22: a reported id is the one cached; without one, the eligible indexes are
\* queried in inspector order up to the first that finds a row, whose id is then
\* the one cached; when none finds a row nothing is cached.
C22_RecoveryInOrder ==
  LET r == log.lastRow
      el == Eligible(r.list, r.data)
      Finds(u) == SelectId(db[r.key], Range(u), r.data)
  IN r.outcome \notin {"none", "error"} =>
       /\ r.lastrowid # 0 => (r.row_id = r.lastrowid /\ r.queried = <<>>)
       /\ r.lastrowid = 0 =>
            /\ Len(r.queried) <= Len(el)
            /\ \A i \in 1..Len(r.queried) : r.queried[i] = el[i]
            /\ \A i \in 1..(Len(r.queried) - 1) : Finds(r.queried[i]) = 0
            /\ IF \E i \in 1..Len(el) : Finds(el[i]) # 0
               THEN r.row_id # 0 /\ r.row_id = Finds(r.queried[Len(r.queried)])
               ELSE r.queried = el /\ r.row_id = 0
       /\ r.row_id # 0 =>
            \A k \in r.keys : k \in DOMAIN id_mappings /\ id_mappings[k] = r.row_id

\* alice's patient was written again: the index on patient_id found no row (the
\* value is NULL), the index on mrn found row 1
C22_Witness ==
  /\ log.lastRow.outcome = "updated"
  /\ log.lastRow.pair = <<"tenant_alice", "patients">>
  /\ log.lastRow.lastrowid = 0
  /\ log.lastRow.queried = << <<"patient_id">>, <<"mrn">> >>
  /\ log.lastRow.row_id = 1
  /\ id_mappings[<<"patients", "id", "1">>] = 1

====
